---- MODULE Spec2Model ----
(***************************************************************************)
(* A model of the attribute/mapping containers of attrdictionary:          *)
(* the Attr and MutableAttr mixins (mixins.py) and the two concrete        *)
(* mutable variants AttrDict (dictionary.py) and AttrMap (mapping.py).     *)
(*                                                                         *)
(* One container object is modelled by its class, its entries, its two     *)
(* bookkeeping fields and its remaining object-level attributes.  Every    *)
(* operation of the container is one action; the outcome of the operation  *)
(* (returned value or raised error) is recorded in the variable last.      *)
(*                                                                         *)
(* Where the identity of objects matters (a boxed child and the value it   *)
(* was boxed from, a copy and its original, the operands and the result of *)
(* an addition) the objects live in the variable heap and the program's    *)
(* names for them in refs.                                                 *)
(***************************************************************************)
EXTENDS Integers, Sequences, FiniteSets, TLC

VARIABLES
    cls,                       \* the concrete class: "AttrDict" or "AttrMap"
    mapping,                   \* the entries: a function from keys to values
    sequence_type,             \* the field _sequence_type: "tuple", "list", "None"
    allow_invalid_attributes,  \* the field _allow_invalid_attributes
    attrs,                     \* the other object-level attributes (__dict__)
    last,                      \* the last operation and its outcome
    default_factory,           \* defaulting variant: the field _default_factory
    pass_key,                  \* defaulting variant: the field _pass_key
    heap,                      \* the objects of the program, by address
    refs                       \* the program's local names, each an address

vars == <<cls, mapping, sequence_type, allow_invalid_attributes, attrs, last,
          default_factory, pass_key, heap, refs>>

(***************************************************************************)
(* Bounds of the model.                                                    *)
(***************************************************************************)
\* the largest number of entries a write may grow the container to
MaxEntries == 2
\* the largest number of object-level attributes besides the bookkeeping fields
MaxAttrs == 1
\* the longest key drawn for the eligibility predicate
MaxKeyLen == 3
\* the longest sequence drawn for the boxing routine
MaxSeqLen == 2
\* the largest number of objects on the heap
MaxObjects == 6

(***************************************************************************)
(* Keys.  A key is a string (a sequence of characters) or a non-string     *)
(* (an integer, written by its digits).  Characters are one-character      *)
(* tokens; "U+1F47B" stands for the single non-ASCII character of the      *)
(* tests' ghost key.                                                       *)
(***************************************************************************)
StrKey(chars) == [str |-> TRUE, cs |-> chars]
IntKey(digits) == [str |-> FALSE, cs |-> digits]
NoKey == [str |-> FALSE, cs |-> <<>>]

KeyFoo == StrKey(<<"f", "o", "o">>)
KeyGet == StrKey(<<"g", "e", "t">>)
KeyMro == StrKey(<<"m", "r", "o">>)
KeyCopy == StrKey(<<"c", "o", "p", "y">>)
KeyHidden == StrKey(<<"_", "k", "e", "y">>)
KeyGhost == StrKey(<<"U+1F47B">>)
KeyThree == IntKey(<<"3">>)
\* the name of the field in which AttrMap holds its entries
KeyMapping == StrKey(<<"_", "m", "a", "p", "p", "i", "n", "g">>)
KeyA == StrKey(<<"a">>)
KeyC == StrKey(<<"c">>)

(***************************************************************************)
(* Values.  Every value is a record of the same shape: its Python type t,  *)
(* a scalar payload s, entries m (mappings) and elements e (sequences).    *)
(* A container value (t is a container class) carries its sequence type in *)
(* s and its allow-invalid-attributes flag in f.                           *)
(***************************************************************************)
Str(s) == [t |-> "str", s |-> s, m |-> <<>>, e |-> <<>>, f |-> FALSE]
Bytes(s) == [t |-> "bytes", s |-> s, m |-> <<>>, e |-> <<>>, f |-> FALSE]
Bool(b) == [t |-> "bool", s |-> IF b THEN "True" ELSE "False", m |-> <<>>, e |-> <<>>, f |-> FALSE]
NoneV == [t |-> "NoneType", s |-> "None", m |-> <<>>, e |-> <<>>, f |-> FALSE]
Dict(entries) == [t |-> "dict", s |-> "", m |-> entries, e |-> <<>>, f |-> FALSE]
List(elems) == [t |-> "list", s |-> "", m |-> <<>>, e |-> elems, f |-> FALSE]
Tuple(elems) == [t |-> "tuple", s |-> "", m |-> <<>>, e |-> elems, f |-> FALSE]
\* a member found on the class (a bound method), as a value
ClassMember == [t |-> "method", s |-> "member", m |-> <<>>, e |-> <<>>, f |-> FALSE]
\* a container object, as a value
Container(c, entries, st, flag) == [t |-> c, s |-> st, m |-> entries, e |-> <<>>, f |-> flag]

Classes == {"AttrDict", "AttrMap"}
SeqTypes == {"tuple", "list", "None"}

\* isinstance(obj, Mapping)
IsMapping(v) == v.t \in {"dict", "AttrDefault"} \cup Classes
\* isinstance(obj, Sequence) and not isinstance(obj, (str, bytes))
IsSequence(v) == v.t \in {"list", "tuple"}
IsContainer(v) == v.t \in {"AttrDefault"} \cup Classes
\* the classes that keep their entries in the object-level attribute _mapping
StoresInField(c) == c \in {"AttrMap", "AttrImpl"}

(***************************************************************************)
(* Attribute eligibility: Attr._valid_name.                                *)
(***************************************************************************)
AsciiLetters ==
    {"a", "b", "c", "d", "e", "f", "g", "h", "i", "j", "k", "l", "m",
     "n", "o", "p", "q", "r", "s", "t", "u", "v", "w", "x", "y", "z",
     "A", "B", "C", "D", "E", "F", "G", "H", "I", "J", "K", "L", "M",
     "N", "O", "P", "Q", "R", "S", "T", "U", "V", "W", "X", "Y", "Z"}
AsciiDigits == {"0", "1", "2", "3", "4", "5", "6", "7", "8", "9"}
\* the character class [A-Za-z0-9_]
WordChars == AsciiLetters \cup AsciiDigits \cup {"_"}

\* The positions at which the anchor $ of re.match matches in chars: the end
\* of the string, and also just before a newline that is its last character.
DollarPositions(chars) ==
    {Len(chars)} \cup
        (IF Len(chars) > 0 /\ chars[Len(chars)] = "\n" THEN {Len(chars) - 1} ELSE {})

\* re.match("^[A-Za-z][A-Za-z0-9_]*$", key) is not None
MatchesPattern(chars) ==
    \E p \in DollarPositions(chars) :
        /\ p >= 1
        /\ chars[1] \in AsciiLetters
        /\ \A i \in 2..p : chars[i] \in WordChars

\* The names attribute lookup finds on an instance through its class: the
\* mapping contract's methods and the mixins' own members.  "AttrImpl" is
\* the tests' class with the read-only capability Attr alone.
InstanceMembers(c) ==
    {StrKey(<<"g", "e", "t">>), StrKey(<<"i", "t", "e", "m", "s">>),
     StrKey(<<"k", "e", "y", "s">>), StrKey(<<"v", "a", "l", "u", "e", "s">>),
     StrKey(<<"_", "b", "u", "i", "l", "d">>)}
    \cup (IF c # "AttrImpl"
          THEN {StrKey(<<"p", "o", "p">>), StrKey(<<"p", "o", "p", "i", "t", "e", "m">>),
                StrKey(<<"c", "l", "e", "a", "r">>), StrKey(<<"u", "p", "d", "a", "t", "e">>),
                StrKey(<<"s", "e", "t", "d", "e", "f", "a", "u", "l", "t">>),
                StrKey(<<"_", "s", "e", "t", "a", "t", "t", "r">>)}
          ELSE {})
    \cup (IF c = "AttrDict"
          THEN {StrKey(<<"c", "o", "p", "y">>),
                StrKey(<<"f", "r", "o", "m", "k", "e", "y", "s">>)}
          ELSE {})

\* The names found on the class object only (members of its metaclass).
MetaclassMembers == {StrKey(<<"m", "r", "o">>), StrKey(<<"r", "e", "g", "i", "s", "t", "e", "r">>)}

\* hasattr(cls, key)
hasattr_cls(c, key) == key \in InstanceMembers(c) \cup MetaclassMembers

\* Attr._valid_name(cls, key)
Attr_valid_name(c, key) ==
    /\ key.str
    /\ MatchesPattern(key.cs)
    /\ ~hasattr_cls(c, key)

(***************************************************************************)
(* Boxing: Attr._build, with the variants' standardized constructors.      *)
(***************************************************************************)
\* A variant of the constructor that ignores the configuration: the new
\* instance keeps the sequence type __init__ gives it.
constructor_default(c, entries, configuration) == Container(c, entries, "tuple", FALSE)

\* AttrDict._constructor / AttrMap._constructor: a new instance of the class
\* holding the entries, with the sequence type of the configuration; __init__
\* sets _allow_invalid_attributes to False.
constructor(c, entries, configuration) == Container(c, entries, configuration, FALSE)

\* A variant of _build that converts a sequence to the sequence type without
\* boxing its elements.
Attr_build_shallow(c, st, obj) ==
    IF IsMapping(obj)
    THEN constructor(c, obj.m, st)
    ELSE IF IsSequence(obj) /\ st # "None"
         THEN [t |-> st, s |-> "", m |-> <<>>, e |-> obj.e, f |-> FALSE]
         ELSE obj

RECURSIVE Attr_build(_, _, _)
\* self._build(obj), for a receiver of class c and sequence type st
Attr_build(c, st, obj) ==
    IF IsMapping(obj)
    THEN constructor(c, obj.m, st)
    ELSE IF IsSequence(obj)
    THEN IF st # "None"
         THEN [t |-> st, s |-> "", m |-> <<>>,
               e |-> [i \in 1..Len(obj.e) |-> Attr_build(c, st, obj.e[i])], f |-> FALSE]
         ELSE obj
    ELSE obj

(***************************************************************************)
(* Outcomes of operations.                                                 *)
(***************************************************************************)
Ret(v) == [status |-> "ok", res |-> v]
Raise(error) == [status |-> error, res |-> NoneV]
Outcome(op, key, val, r) ==
    [op |-> op, key |-> key, val |-> val, status |-> r.status, res |-> r.res]

Put(m, k, v) == [x \in DOMAIN m \cup {k} |-> IF x = k THEN v ELSE m[x]]
Drop(m, k) == [x \in DOMAIN m \ {k} |-> m[x]]
\* the entries of m overwritten and extended by those of n
Overwrite(m, n) == [x \in DOMAIN m \cup DOMAIN n |-> IF x \in DOMAIN n THEN n[x] ELSE m[x]]

(***************************************************************************)
(* The read path: keyed lookup, call-style access, attribute read.        *)
(***************************************************************************)
\* self[key]: AttrMap.__getitem__, dict.__getitem__
getitem(key) ==
    IF key \in DOMAIN mapping THEN Ret(mapping[key]) ELSE Raise("KeyError")

\* self.get(key, default): the mapping contract's get, which uses self[key]
get(key, default) ==
    IF key \in DOMAIN mapping THEN Ret(mapping[key]) ELSE Ret(default)

\* A variant of __call__ that applies the eligibility check of __getattr__.
Attr_call_eligible(key) ==
    IF key \notin DOMAIN mapping \/ ~Attr_valid_name(cls, key)
    THEN Raise("AttributeError")
    ELSE Ret(Attr_build(cls, sequence_type, mapping[key]))

\* Attr.__call__(self, key)
Attr_call(key) ==
    IF key \notin DOMAIN mapping
    THEN Raise("AttributeError")
    ELSE Ret(Attr_build(cls, sequence_type, mapping[key]))

\* A variant of __getattr__ that refuses a key only when it is both absent
\* and ineligible ("and" in place of "or").
Attr_getattr_and(key) ==
    IF key \notin DOMAIN mapping
    THEN Raise("AttributeError")
    ELSE Ret(Attr_build(cls, sequence_type, mapping[key]))

\* Attr.__getattr__(self, key): the hook Python calls when normal attribute
\* lookup has not found key
Attr_getattr(key) ==
    IF key \notin DOMAIN mapping \/ ~Attr_valid_name(cls, key)
    THEN Raise("AttributeError")
    ELSE Ret(Attr_build(cls, sequence_type, mapping[key]))

\* The expression obj.key (getattr(obj, key)): the object's own attributes,
\* then the members of its class, and __getattr__ only when both miss.
attribute_read(key) ==
    IF ~key.str THEN Raise("TypeError")
    ELSE IF key = KeyMapping /\ StoresInField(cls) THEN Ret(Dict(mapping))
    ELSE IF key \in DOMAIN attrs THEN Ret(attrs[key])
    ELSE IF key \in InstanceMembers(cls) THEN Ret(ClassMember)
    ELSE Attr_getattr(key)

\* what an operation on the one container leaves alone: the configuration
\* of the defaulting variant and the objects of the heap
Others == UNCHANGED <<default_factory, pass_key, heap, refs>>

Unchanged ==
    /\ UNCHANGED <<cls, mapping, sequence_type, allow_invalid_attributes, attrs>>
    /\ Others

GetItem(key) ==
    /\ last' = Outcome("getitem", key, NoneV, getitem(key))
    /\ Unchanged

Get(key, default) ==
    /\ last' = Outcome("get", key, default, get(key, default))
    /\ Unchanged

\* A variant of call-style access that stores the boxed value back into the
\* mapping (a cache of the box).
Call_caching(key) ==
    /\ last' = Outcome("call", key, NoneV, Attr_call(key))
    /\ mapping' = IF key \in DOMAIN mapping
                  THEN Put(mapping, key, Attr_call(key).res)
                  ELSE mapping
    /\ UNCHANGED <<cls, sequence_type, allow_invalid_attributes, attrs>>
    /\ Others

Call(key) ==
    /\ last' = Outcome("call", key, NoneV, Attr_call(key))
    /\ Unchanged

GetAttr(key) ==
    /\ last' = Outcome("getattr", key, NoneV, attribute_read(key))
    /\ Unchanged

(***************************************************************************)
(* The write path.  An effect is the entries m and object attributes a an  *)
(* operation leaves behind, with its outcome r.                            *)
(***************************************************************************)
Effect(m, a, r) == [m |-> m, a |-> a, r |-> r]
\* the marker of an omitted optional argument
Missing == [t |-> "missing", s |-> "", m |-> <<>>, e |-> <<>>, f |-> FALSE]

\* self[key] = value: AttrMap.__setitem__, dict.__setitem__
setitem(key, value) == Effect(Put(mapping, key, value), attrs, Ret(NoneV))

\* del self[key]: AttrMap.__delitem__, dict.__delitem__
delitem(key) ==
    IF key \in DOMAIN mapping
    THEN Effect(Drop(mapping, key), attrs, Ret(NoneV))
    ELSE Effect(mapping, attrs, Raise("KeyError"))

\* A variant of _setattr that consults the flag, as __setattr__ does for an
\* ineligible name.
MutableAttr_raw_setattr_guarded(key, value) ==
    IF allow_invalid_attributes
    THEN Effect(mapping, Put(attrs, key, value), Ret(NoneV))
    ELSE Effect(mapping, attrs, Raise("TypeError"))

\* MutableAttr._setattr(self, key, value): object.__setattr__.  On AttrMap
\* the attribute _mapping is the field that holds the entries (followed here
\* for a value that is a mapping).
MutableAttr_raw_setattr(key, value) ==
    IF key = KeyMapping /\ StoresInField(cls)
    THEN Effect(value.m, attrs, Ret(NoneV))
    ELSE Effect(mapping, Put(attrs, key, value), Ret(NoneV))

\* MutableAttr._delattr(self, key): object.__delattr__
MutableAttr_raw_delattr(key) ==
    IF key \in DOMAIN attrs
    THEN Effect(mapping, Drop(attrs, key), Ret(NoneV))
    ELSE Effect(mapping, attrs, Raise("AttributeError"))

\* A variant of __setattr__ that stores an eligible key as an object-level
\* attribute (object.__setattr__) instead of writing it into the mapping.
MutableAttr_setattr_bypass(key, value) ==
    IF Attr_valid_name(cls, key) \/ allow_invalid_attributes
    THEN MutableAttr_raw_setattr(key, value)
    ELSE Effect(mapping, attrs, Raise("TypeError"))

\* A variant of __setattr__ without the eligibility check: every name is
\* written into the mapping.
MutableAttr_setattr_unchecked(key, value) == setitem(key, value)

\* MutableAttr.__setattr__(self, key, value)
MutableAttr_setattr(key, value) ==
    IF Attr_valid_name(cls, key)
    THEN setitem(key, value)
    ELSE IF allow_invalid_attributes
    THEN MutableAttr_raw_setattr(key, value)
    ELSE Effect(mapping, attrs, Raise("TypeError"))

\* A variant of __delattr__ that deletes the object-level attribute of an
\* eligible key instead of the entry of the mapping.
MutableAttr_delattr_object(key) ==
    IF Attr_valid_name(cls, key) \/ allow_invalid_attributes
    THEN MutableAttr_raw_delattr(key)
    ELSE Effect(mapping, attrs, Raise("TypeError"))

\* A variant of __delattr__ that does not consult the flag.
MutableAttr_delattr_unguarded(key) ==
    IF Attr_valid_name(cls, key)
    THEN delitem(key)
    ELSE MutableAttr_raw_delattr(key)

\* MutableAttr.__delattr__(self, key)
MutableAttr_delattr(key) ==
    IF Attr_valid_name(cls, key)
    THEN delitem(key)
    ELSE IF allow_invalid_attributes
    THEN MutableAttr_raw_delattr(key)
    ELSE Effect(mapping, attrs, Raise("TypeError"))

\* self.pop(key[, default]) of the mutable mapping contract
pop(key, default) ==
    IF key \in DOMAIN mapping
    THEN Effect(Drop(mapping, key), attrs, Ret(mapping[key]))
    ELSE IF default = Missing
    THEN Effect(mapping, attrs, Raise("KeyError"))
    ELSE Effect(mapping, attrs, Ret(default))

\* self.setdefault(key, default) of the mutable mapping contract
setdefault(key, default) ==
    IF key \in DOMAIN mapping
    THEN Effect(mapping, attrs, Ret(mapping[key]))
    ELSE Effect(Put(mapping, key, default), attrs, Ret(default))

\* hash(v) raises TypeError: lists, dicts and the containers (mappings that
\* define equality) are unhashable
IsUnhashable(v) == v.t \in {"list", "dict", "AttrDefault"} \cup Classes

\* the key a string is when it is used as one
AsKey(v) ==
    CASE v = Str("foo") -> KeyFoo
      [] v = Str("a") -> KeyA
      [] v = Str("c") -> KeyC
      [] v = Str("_key") -> KeyHidden

\* self.update(pairs): "for key, value in other: self[key] = value", one
\* item after the other; an item that is not a sequence (TypeError), not of
\* length two (ValueError) or whose key is unhashable (TypeError) ends the
\* loop, and the items before it have been stored.  A string item is taken
\* not to have two characters.
RECURSIVE update_pairs(_, _)
update_pairs(entries, items) ==
    IF items = <<>> THEN [m |-> entries, r |-> Ret(NoneV)]
    ELSE IF Head(items).t \in {"str", "bytes"} THEN [m |-> entries, r |-> Raise("ValueError")]
    ELSE IF ~IsSequence(Head(items)) THEN [m |-> entries, r |-> Raise("TypeError")]
    ELSE IF Len(Head(items).e) # 2 THEN [m |-> entries, r |-> Raise("ValueError")]
    ELSE IF IsUnhashable(Head(items).e[1]) THEN [m |-> entries, r |-> Raise("TypeError")]
    ELSE update_pairs(Put(entries, AsKey(Head(items).e[1]), Head(items).e[2]), Tail(items))

\* self.update(other) of the mutable mapping contract (dict.update on
\* AttrDict, MutableMapping.update over __setitem__ on AttrMap): self[k] =
\* other[k] for a mapping, the pairs in turn for a sequence, TypeError for
\* an argument that cannot be iterated
update(other) ==
    IF IsMapping(other)
    THEN Effect(Overwrite(mapping, other.m), attrs, Ret(NoneV))
    ELSE IF IsSequence(other)
    THEN Effect(update_pairs(mapping, other.e).m, attrs, update_pairs(mapping, other.e).r)
    ELSE Effect(mapping, attrs, Raise("TypeError"))

\* self.clear() of the mutable mapping contract
clear == Effect(<<>>, attrs, Ret(NoneV))

\* An operation takes effect; a write that would grow the container past the
\* bounds of the model is not taken.
Apply(op, key, val, eff) ==
    /\ Cardinality(DOMAIN eff.m) <= MaxEntries
    /\ Cardinality(DOMAIN eff.a) <= MaxAttrs
    /\ mapping' = eff.m
    /\ attrs' = eff.a
    /\ last' = Outcome(op, key, val, eff.r)
    /\ UNCHANGED <<cls, sequence_type, allow_invalid_attributes>>
    /\ Others

SetItem(key, value) == Apply("setitem", key, value, setitem(key, value))

DelItem(key) == Apply("delitem", key, NoneV, delitem(key))

\* obj.key = value (setattr(obj, key, value)); Python refuses a name that
\* is not a string before __setattr__ is called
SetAttr(key, value) ==
    Apply("setattr", key, value,
          IF key.str THEN MutableAttr_setattr(key, value)
          ELSE Effect(mapping, attrs, Raise("TypeError")))

\* del obj.key (delattr(obj, key))
DelAttr(key) ==
    Apply("delattr", key, NoneV,
          IF key.str THEN MutableAttr_delattr(key)
          ELSE Effect(mapping, attrs, Raise("TypeError")))

RawSetattr(key, value) ==
    /\ key.str
    /\ Apply("_setattr", key, value, MutableAttr_raw_setattr(key, value))

RawDelattr(key) ==
    /\ key.str
    /\ Apply("_delattr", key, NoneV, MutableAttr_raw_delattr(key))

Pop(key, default) == Apply("pop", key, default, pop(key, default))

\* self.popitem(): some entry is removed and returned (which one depends on
\* the insertion order, which the model leaves open); KeyError when empty
PopItem ==
    \/ /\ DOMAIN mapping = {}
       /\ Apply("popitem", NoKey, NoneV, Effect(mapping, attrs, Raise("KeyError")))
    \/ \E key \in DOMAIN mapping :
           Apply("popitem", key, NoneV,
                 Effect(Drop(mapping, key), attrs, Ret(mapping[key])))

Clear == Apply("clear", NoKey, NoneV, clear)

Update(other) == Apply("update", NoKey, other, update(other))

SetDefault(key, default) == Apply("setdefault", key, default, setdefault(key, default))

\* self._setattr("_allow_invalid_attributes", flag)
SetAllowInvalid(flag) ==
    /\ allow_invalid_attributes' = flag
    /\ last' = Outcome("_setattr_flag", NoKey, Bool(flag), Ret(NoneV))
    /\ UNCHANGED <<cls, mapping, sequence_type, attrs>>
    /\ Others

\* The container with the read-only capability alone (the tests' AttrImpl):
\* Attr defines neither __setitem__ nor __delitem__, so obj[key] = value and
\* del obj[key] raise TypeError; it defines neither __setattr__ nor
\* __delattr__, so obj.key = value and del obj.key are object.__setattr__
\* and object.__delattr__.
\* (a keyed write that stores the entry, as MutableAttr's classes do)
Attr_setitem_storing(key, value) == Effect(Put(mapping, key, value), attrs, Ret(NoneV))

Attr_setitem(key, value) == Effect(mapping, attrs, Raise("TypeError"))

Attr_delitem(key) == Effect(mapping, attrs, Raise("TypeError"))

ReadOnlySetItem(key, value) == Apply("setitem", key, value, Attr_setitem(key, value))

ReadOnlyDelItem(key) == Apply("delitem", key, NoneV, Attr_delitem(key))

ReadOnlySetAttr(key, value) ==
    /\ key.str
    /\ Apply("setattr", key, value, MutableAttr_raw_setattr(key, value))

ReadOnlyDelAttr(key) ==
    /\ key.str
    /\ Apply("delattr", key, NoneV, MutableAttr_raw_delattr(key))

\* self._setattr("_sequence_type", st)
SetSequenceType(st) ==
    /\ sequence_type' = st
    /\ last' = Outcome("_setattr_sequence_type", NoKey, Str(st), Ret(NoneV))
    /\ UNCHANGED <<cls, mapping, allow_invalid_attributes, attrs>>
    /\ Others

\* len(self): AttrMap.__len__, dict.__len__
container_len == Cardinality(DOMAIN mapping)

(***************************************************************************)
(* The container state machine.                                            *)
(***************************************************************************)
VBar == Str("bar")
VQux == Str("qux")
VSub == Dict(KeyA :> Str("b"))
VList == List(<<VSub>>)

\* AttrMap.__init__ / AttrDict.__init__ (through _constructor): a container
\* built from a mapping, with the sequence type asked for
Construct(mappings, sequence_types) ==
    /\ cls \in Classes
    /\ sequence_type \in sequence_types
    /\ allow_invalid_attributes = FALSE
    /\ attrs = <<>>
    /\ mapping \in mappings
    /\ last = Outcome("init", NoKey, NoneV, Ret(NoneV))
    /\ default_factory = "None"
    /\ pass_key = FALSE
    /\ heap = <<>>
    /\ refs = <<>>

\* the reads of a container, over the keys KS
Reads(KS) ==
    \/ \E key \in KS : GetItem(key)
    \/ \E key \in KS : Call(key)
    \/ \E key \in KS : GetAttr(key)

\* keyed and attribute writes and deletes, over the keys KS and the values VS
AttrWrites(KS, VS) ==
    \/ \E key \in KS, value \in VS : SetItem(key, value)
    \/ \E key \in KS : DelItem(key)
    \/ \E key \in KS, value \in VS : SetAttr(key, value)
    \/ \E key \in KS : DelAttr(key)
    \/ \E flag \in BOOLEAN : SetAllowInvalid(flag)

\* the other writes of the mutable mapping contract
ContractWrites(KS, VS) ==
    \/ \E key \in KS, default \in {Missing, VQux} : Pop(key, default)
    \/ PopItem
    \/ Clear
    \/ \E key \in KS, value \in VS : Update(Dict(key :> value))
    \/ \E key \in KS, default \in {NoneV, VQux} : SetDefault(key, default)

\* the raw escape hatch, over the names KS and the values VS
RawWrites(KS, VS) ==
    \/ \E key \in KS, value \in VS : RawSetattr(key, value)
    \/ \E key \in KS : RawDelattr(key)

\* an eligible key, a key naming a class member, and a hidden key
Keys == {KeyFoo, KeyGet, KeyHidden}
Values == {VBar, VSub}

Init == Construct({<<>>} \cup {k :> v : k \in Keys, v \in Values}, {"tuple", "None"})

Next ==
    \/ Reads(Keys)
    \/ AttrWrites(Keys, Values)
    \/ RawWrites(Keys, Values)

Spec == Init /\ [][Next]_vars

\* The container under the operations of its mapping contract and its
\* attribute syntax alone, over two eligible keys and a key naming a member.
MutKeys == {KeyFoo, KeyA, KeyGet}

InitMut == Construct({<<>>} \cup {k :> v : k \in MutKeys, v \in Values}, {"tuple", "None"})

NextMut ==
    \/ AttrWrites(MutKeys, Values)
    \/ ContractWrites(MutKeys, Values)

SpecMut == InitMut /\ [][NextMut]_vars

\* The container over the names found on its class: a member instances
\* inherit and a member of the metaclass; sequences among the values.
MemberKeys == {KeyGet, KeyMro}
MemberValues == {VBar, VList}

InitMember ==
    Construct({<<>>} \cup {k :> v : k \in MemberKeys, v \in MemberValues}, {"tuple", "None"})

NextMember ==
    \/ Reads(MemberKeys)
    \/ AttrWrites(MemberKeys, MemberValues)
    \/ RawWrites(MemberKeys, MemberValues)

SpecMember == InitMember /\ [][NextMember]_vars

(***************************************************************************)
(* Reads of a constructed container, over keys of every kind and values    *)
(* of every kind (the mapping of the tests' item_access).                  *)
(***************************************************************************)
VBytes == Bytes("bytes")
VTuple == Tuple(<<VSub, Str("c")>>)

ReadKeys == {KeyFoo, KeyGet, KeyHidden, KeyThree, KeyGhost}
ReadValues == {VBar, VBytes, VSub, VList, VTuple}
ReadMappings ==
    {<<>>}
    \cup {k :> v : k \in ReadKeys, v \in ReadValues}
    \cup {(KeyFoo :> v) @@ (KeyThree :> VBar) : v \in ReadValues}

InitRead == Construct(ReadMappings, SeqTypes)

NextRead ==
    \/ Reads(ReadKeys)
    \/ \E key \in ReadKeys : Get(key, NoneV)
    \/ \E flag \in BOOLEAN : SetAllowInvalid(flag)

SpecRead == InitRead /\ [][NextRead]_vars

(***************************************************************************)
(* The eligibility predicate, applied to every short key over an alphabet  *)
(* with a character of each kind, to the member names and to an integer.   *)
(***************************************************************************)
KeyChars == {"a", "Z", "1", "_", "\n", "U+00E9"}
ValidKeys ==
    {StrKey(chars) : chars \in UNION {[1..n -> KeyChars] : n \in 0..MaxKeyLen}}
    \cup {KeyFoo, KeyGet, KeyCopy, KeyMro, KeyHidden, KeyGhost, KeyThree}

ValidName(key) ==
    /\ last' = Outcome("_valid_name", key, NoneV, Ret(Bool(Attr_valid_name(cls, key))))
    /\ Unchanged

InitValid == Construct({<<>>, KeyFoo :> VBar, KeyGet :> VSub}, {"tuple"})

NextValid ==
    \/ \E key \in ValidKeys : ValidName(key)
    \/ RawSetattr(KeyFoo, VBar)
    \/ \E flag \in BOOLEAN : SetAllowInvalid(flag)

SpecValid == InitValid /\ [][NextValid]_vars

(***************************************************************************)
(* The boxing routine, applied to values of every kind: scalars, plain    *)
(* mappings, a container of the other configuration, and sequences of      *)
(* these nested up to three deep.                                          *)
(***************************************************************************)
VOther == Container("AttrMap", KeyA :> VBar, "list", TRUE)
BuildAtoms == {VBar, VBytes, NoneV, VSub, Dict(KeyFoo :> VList), VOther}
BuildElems == {VBar, VBytes, VSub, VOther, VList, VTuple, List(<<Tuple(<<VSub>>)>>)}
BuildValues ==
    BuildAtoms \cup
    {[t |-> ty, s |-> "", m |-> <<>>, e |-> es, f |-> FALSE] :
        ty \in {"list", "tuple"},
        es \in UNION {[1..n -> BuildElems] : n \in 0..MaxSeqLen}}

Build(obj) ==
    /\ last' = Outcome("_build", NoKey, obj, Ret(Attr_build(cls, sequence_type, obj)))
    /\ Unchanged

InitBuild == Construct({<<>>}, SeqTypes)

NextBuild == \E obj \in BuildValues : Build(obj)

SpecBuild == InitBuild /\ [][NextBuild]_vars

(***************************************************************************)
(* Addition.  merge is the function of the package's merge module, taken   *)
(* from its contract: right-biased, recursive where both values are         *)
(* mappings, returning a plain mapping.                                    *)
(***************************************************************************)
\* A variant of merge that keeps the left value of a key held by both sides.
merge_left_biased(left, right) ==
    [k \in DOMAIN left \cup DOMAIN right |->
        IF k \in DOMAIN left THEN left[k] ELSE right[k]]

RECURSIVE merge(_, _)
merge(left, right) ==
    [k \in DOMAIN left \cup DOMAIN right |->
        IF k \notin DOMAIN right THEN left[k]
        ELSE IF k \notin DOMAIN left THEN right[k]
        ELSE IF IsMapping(left[k]) /\ IsMapping(right[k])
        THEN Dict(merge(left[k].m, right[k].m))
        ELSE right[k]]

\* the value NotImplemented, which makes Python try the other operand
NotImplemented == [status |-> "NotImplemented", res |-> NoneV]

\* A variant of __add__ that constructs the result without the merged entries.
Attr_add_empty(self, other) ==
    IF ~IsMapping(other)
    THEN NotImplemented
    ELSE Ret(constructor(self.t, <<>>, self.s))

\* Attr.__add__(self, other)
Attr_add(self, other) ==
    IF ~IsMapping(other)
    THEN NotImplemented
    ELSE Ret(constructor(self.t, merge(self.m, other.m), self.s))

\* A variant of __radd__ that merges in the order of __add__.
Attr_radd_swapped(self, other) ==
    IF ~IsMapping(other)
    THEN NotImplemented
    ELSE Ret(constructor(self.t, merge(self.m, other.m), self.s))

\* Attr.__radd__(self, other)
Attr_radd(self, other) ==
    IF ~IsMapping(other)
    THEN NotImplemented
    ELSE Ret(constructor(self.t, merge(other.m, self.m), self.s))

\* The expression x + y: x.__add__(y) when x is a container, then
\* y.__radd__(x) when y is one; TypeError when neither gives a result (plain
\* mappings and integers do not add to mappings).
Plus(x, y) ==
    IF IsContainer(x) /\ Attr_add(x, y) # NotImplemented THEN Attr_add(x, y)
    ELSE IF IsContainer(y) /\ Attr_radd(y, x) # NotImplemented THEN Attr_radd(y, x)
    ELSE Raise("TypeError")

\* the container of the state, as a value
Self == Container(cls, mapping, sequence_type, allow_invalid_attributes)

\* self + other
Add(other) ==
    /\ last' = Outcome("add", NoKey, other, Plus(Self, other))
    /\ Unchanged

\* other + self
RAdd(other) ==
    /\ last' = Outcome("radd", NoKey, other, Plus(other, Self))
    /\ Unchanged

VInt == [t |-> "int", s |-> "1", m |-> <<>>, e |-> <<>>, f |-> FALSE]
AddEntries ==
    {<<>>, KeyFoo :> VBar, KeyFoo :> VQux, KeyFoo :> VSub, KeyFoo :> VList,
     KeyFoo :> Dict(KeyA :> Str("z")), KeyFoo :> Dict(KeyC :> Str("d")),
     KeyC :> VQux, (KeyFoo :> VBar) @@ (KeyC :> VSub)}
AddOperands ==
    {Dict(entries) : entries \in AddEntries}
    \cup {Container(c, entries, st, FALSE) :
            c \in Classes, entries \in AddEntries, st \in {"tuple", "list"}}
    \cup {VInt}

InitAdd == Construct(AddEntries, SeqTypes)

NextAdd ==
    \/ \E other \in AddOperands : Add(other)
    \/ \E other \in AddOperands : RAdd(other)

SpecAdd == InitAdd /\ [][NextAdd]_vars

(***************************************************************************)
(* Serialization: pickle.loads(pickle.dumps(obj)).  pickle asks the object *)
(* for its state, makes a new object of the class without calling         *)
(* __init__, and hands the state to __setstate__.                          *)
(***************************************************************************)
State(entries, st, flag) ==
    [mapping |-> entries, sequence_type |-> st, allow_invalid_attributes |-> flag]

\* AttrDict.__getstate__: (self.copy(), self._sequence_type, flag)
AttrDict_getstate(self) == State(self.m, self.s, self.f)

\* AttrMap.__getstate__: (self._mapping, self._sequence_type, flag)
AttrMap_getstate(self) == State(self.m, self.s, self.f)

\* AttrDict.__setstate__: self.update(mapping), then the two fields
AttrDict_setstate(self, state) ==
    Container(self.t, Overwrite(self.m, state.mapping),
              state.sequence_type, state.allow_invalid_attributes)

\* A variant of AttrMap.__setstate__ that leaves the flag as __init__ sets it.
AttrMap_setstate_noflag(self, state) ==
    Container(self.t, state.mapping, state.sequence_type, FALSE)

\* AttrMap.__setstate__: the three fields
AttrMap_setstate(self, state) ==
    Container(self.t, state.mapping,
              state.sequence_type, state.allow_invalid_attributes)

\* The object pickle rebuilds before it sets the state: cls.__new__(cls), no
\* field set; for the dict subclass the items of the dict are restored too.
NewObject(self) ==
    Container(self.t, IF self.t = "AttrDict" THEN self.m ELSE <<>>, "unset", FALSE)

\* pickle.loads(pickle.dumps(self))
Roundtrip(self) ==
    IF self.t = "AttrDict"
    THEN AttrDict_setstate(NewObject(self), AttrDict_getstate(self))
    ELSE AttrMap_setstate(NewObject(self), AttrMap_getstate(self))

Pickle ==
    /\ last' = Outcome("pickle", NoKey, NoneV, Ret(Roundtrip(Self)))
    /\ Unchanged

InitPickle == Construct(ReadMappings, SeqTypes)

NextPickle ==
    \/ Pickle
    \/ \E flag \in BOOLEAN : SetAllowInvalid(flag)
    \/ \E value \in {VList, VBar} : SetItem(KeyFoo, value)

SpecPickle == InitPickle /\ [][NextPickle]_vars

(***************************************************************************)
(* The defaulting variant, AttrDefault, from its contract: a keyed lookup  *)
(* of a missing key calls the factory (with the key when pass_key is set), *)
(* stores the value under the key and returns it; without a factory it     *)
(* raises KeyError.                                                        *)
(***************************************************************************)
\* the factories of the tests: none, list, and lambda value: value * 2
Factories == {"None", "list", "double"}

DefaultKeys == {KeyFoo, KeyA, KeyHidden}

\* key * 2 for the keys of the model
Double(key) ==
    CASE key = KeyFoo -> Str("foofoo")
      [] key = KeyA -> Str("aa")
      [] key = KeyHidden -> Str("_key_key")

\* self._default_factory(key) when pass_key is set, self._default_factory()
\* when it is not
call_factory(key) ==
    IF default_factory = "list"
    THEN IF pass_key
         THEN List([i \in 1..Len(key.cs) |-> Str(key.cs[i])])
         ELSE List(<<>>)
    ELSE Double(key)

\* AttrDefault.__missing__(key)
AttrDefault_missing(key) ==
    Effect(Put(mapping, key, call_factory(key)), attrs, Ret(call_factory(key)))

\* AttrDefault.__getitem__(key)
AttrDefault_getitem(key) ==
    IF key \in DOMAIN mapping THEN Effect(mapping, attrs, Ret(mapping[key]))
    ELSE IF default_factory # "None" THEN AttrDefault_missing(key)
    ELSE Effect(mapping, attrs, Raise("KeyError"))

\* A variant of __getattr__ on the defaulting variant whose membership test
\* does not run the lookup.
AttrDefault_getattr_nolookup(key) ==
    IF key \notin DOMAIN mapping \/ ~Attr_valid_name(cls, key)
    THEN Effect(mapping, attrs, Raise("AttributeError"))
    ELSE Effect(mapping, attrs, Ret(Attr_build(cls, sequence_type, mapping[key])))

\* Attr.__getattr__(self, key) on the defaulting variant: the test
\* `key not in self` is Mapping.__contains__, which tries self[key] and so
\* synthesizes and stores the value of a missing key
AttrDefault_getattr(key) ==
    IF AttrDefault_getitem(key).r.status = "KeyError"
    THEN Effect(mapping, attrs, Raise("AttributeError"))
    ELSE IF ~Attr_valid_name(cls, key)
    THEN Effect(AttrDefault_getitem(key).m, attrs, Raise("AttributeError"))
    ELSE Effect(AttrDefault_getitem(key).m, attrs,
                Ret(Attr_build(cls, sequence_type, AttrDefault_getitem(key).m[key])))

\* Effects carry the entries and attributes; the factory fields stay.
DefaultGetItem(key) == Apply("getitem", key, NoneV, AttrDefault_getitem(key))

DefaultGetAttr(key) == Apply("getattr", key, NoneV, AttrDefault_getattr(key))

\* AttrDefault(default_factory, items, sequence_type, pass_key); the lambda
\* of the tests takes the key, so it comes with pass_key set
InitDefault ==
    /\ cls = "AttrDefault"
    /\ default_factory \in Factories
    /\ pass_key \in BOOLEAN
    /\ default_factory = "double" => pass_key
    /\ sequence_type \in {"tuple", "None"}
    /\ allow_invalid_attributes = FALSE
    /\ attrs = <<>>
    /\ mapping \in {<<>>, KeyFoo :> VBar}
    /\ last = Outcome("init", NoKey, NoneV, Ret(NoneV))
    /\ heap = <<>>
    /\ refs = <<>>

NextDefault ==
    \/ \E key \in DefaultKeys : DefaultGetItem(key)
    \/ \E key \in DefaultKeys : DefaultGetAttr(key)
    \/ \E key \in DefaultKeys : DelItem(key)

SpecDefault == InitDefault /\ [][NextDefault]_vars

\* Attribute writes and deletes of names that are not eligible: a hidden
\* name, the name of a class member, and the name of AttrMap's own field
\* (assigned mappings only, and not deleted: without the field there is no
\* container left to observe).
InvalidKeys == {KeyHidden, KeyGet, KeyMapping}

InitInvalid == Construct({<<>>, KeyFoo :> VBar, KeyHidden :> VBar}, {"tuple"})

NextInvalid ==
    \/ \E key \in InvalidKeys, value \in Values :
          /\ key = KeyMapping => IsMapping(value)
          /\ SetAttr(key, value)
    \/ \E key \in InvalidKeys \ {KeyMapping} : DelAttr(key)
    \/ \E key \in InvalidKeys : GetAttr(key)
    \/ \E flag \in BOOLEAN : SetAllowInvalid(flag)

SpecInvalid == InitInvalid /\ [][NextInvalid]_vars

\* The containers derived from a container: by boxing on a read, by
\* addition, by deserialization; over mappings that hold mappings inside
\* sequences and sequences inside mappings.
DeriveValues ==
    {VSub, VList, VOther,
     Dict(KeyFoo :> VList),
     Dict(KeyA :> Dict(KeyC :> Tuple(<<VSub>>))),
     Tuple(<<List(<<Dict(KeyA :> VList)>>), VBar>>)}
DeriveMappings ==
    {KeyFoo :> v : v \in DeriveValues}
    \cup {(KeyFoo :> v) @@ (KeyThree :> VList) : v \in DeriveValues}

InitDerive == Construct(DeriveMappings, SeqTypes)

NextDerive ==
    \/ \E key \in {KeyFoo, KeyThree} : Call(key)
    \/ GetAttr(KeyFoo)
    \/ \E other \in AddOperands : Add(other)
    \/ \E entries \in AddEntries : RAdd(Dict(entries))
    \/ Pickle

SpecDerive == InitDerive /\ [][NextDerive]_vars

\* The read-only container: reads, and the attempts to write and delete by
\* key and by attribute, over an eligible name, a hidden name, the name of
\* a class member and the name of the field that holds the entries (assigned
\* a mapping, and not deleted).
ReadOnlyKeys == {KeyFoo, KeyHidden, KeyGet}

InitReadOnly ==
    /\ cls = "AttrImpl"
    /\ sequence_type = "tuple"
    /\ allow_invalid_attributes = FALSE
    /\ attrs = <<>>
    /\ mapping \in {<<>>, KeyFoo :> VBar, KeyFoo :> VSub}
    /\ last = Outcome("init", NoKey, NoneV, Ret(NoneV))
    /\ default_factory = "None"
    /\ pass_key = FALSE
    /\ heap = <<>>
    /\ refs = <<>>

NextReadOnly ==
    \/ Reads(ReadOnlyKeys)
    \/ \E key \in ReadOnlyKeys, value \in {VQux, VSub} : ReadOnlySetItem(key, value)
    \/ \E key \in ReadOnlyKeys : ReadOnlyDelItem(key)
    \/ \E key \in ReadOnlyKeys, value \in {VQux, VSub} : ReadOnlySetAttr(key, value)
    \/ ReadOnlySetAttr(KeyMapping, Dict(KeyFoo :> VQux))
    \/ \E key \in ReadOnlyKeys : ReadOnlyDelAttr(key)

SpecReadOnly == InitReadOnly /\ [][NextReadOnly]_vars

\* The operations that can fail, each with inputs that make it fail and
\* inputs that do not: reads of absent keys, attribute writes and deletes
\* of an ineligible name, deletes and pops of absent keys, popitem on an
\* empty container, addition with a non-mapping, update with an argument
\* that is not iterable or holds an item that cannot be stored.
ErrorKeys == {KeyFoo, KeyHidden}
Pair(k, v) == Tuple(<<k, v>>)
UpdateArguments ==
    {Dict(KeyFoo :> VQux), VInt,
     List(<<Pair(Str("a"), VQux)>>),
     List(<<VInt>>),
     List(<<Pair(Str("a"), VQux), VInt>>),
     List(<<Pair(Str("a"), VQux), Pair(VList, VQux)>>),
     List(<<Pair(Str("a"), VQux), Tuple(<<VQux>>)>>)}

InitError == Construct({<<>>, KeyFoo :> VBar}, {"tuple"})

NextError ==
    \/ Reads(ErrorKeys)
    \/ AttrWrites(ErrorKeys, {VBar})
    \/ \E key \in ErrorKeys, default \in {Missing, VQux} : Pop(key, default)
    \/ PopItem
    \/ \E other \in UpdateArguments : Update(other)
    \/ \E other \in {VInt, VSub} : Add(other)
    \/ \E other \in {VInt, VSub} : RAdd(other)

SpecError == InitError /\ [][NextError]_vars

\* The raw escape hatch, _setattr and _delattr, under both values of the
\* flag: over an eligible name, a hidden name, the name of a class member
\* and the name of AttrMap's own field (assigned a mapping, and not deleted),
\* and over the two bookkeeping fields every container has.
RawKeys == {KeyFoo, KeyHidden, KeyGet}

InitRaw == Construct({<<>>, KeyFoo :> VBar, KeyHidden :> VBar}, {"tuple"})

NextRaw ==
    \/ \E key \in RawKeys, value \in Values : RawSetattr(key, value)
    \/ RawSetattr(KeyMapping, VSub)
    \/ \E key \in RawKeys : RawDelattr(key)
    \/ \E flag \in BOOLEAN : SetAllowInvalid(flag)
    \/ \E st \in {"tuple", "list"} : SetSequenceType(st)
    \/ \E key \in RawKeys : GetAttr(key)
    \/ \E key \in RawKeys : GetItem(key)

SpecRaw == InitRaw /\ [][NextRaw]_vars

\* The containers derived from a container whose flag the program sets:
\* obj._setattr('_allow_invalid_attributes', flag), then boxing, addition
\* and the pickle round trip.
InitFlag == Construct({KeyFoo :> v : v \in {VSub, VList, VBar}}, {"tuple", "list"})

NextFlag ==
    \/ \E flag \in BOOLEAN : SetAllowInvalid(flag)
    \/ Call(KeyFoo)
    \/ GetAttr(KeyFoo)
    \/ \E other \in {VSub, Dict(KeyFoo :> VSub), VInt} : Add(other)
    \/ \E other \in {VSub, Dict(KeyFoo :> VSub), VInt} : RAdd(other)
    \/ Pickle
    \/ \E value \in {VSub, VList, VBar} : SetItem(KeyFoo, value)

SpecFlag == InitFlag /\ [][NextFlag]_vars

\* merge(left, right) on its own, over the mappings of the addition and two
\* mappings nested one level deeper
MergeEntries ==
    AddEntries \cup {KeyFoo :> Dict(KeyA :> VSub),
                     KeyFoo :> Dict(KeyA :> Dict(KeyC :> Str("d")))}

Merge(left, right) ==
    /\ last' = Outcome("merge", NoKey, Tuple(<<Dict(left), Dict(right)>>),
                       Ret(Dict(merge(left, right))))
    /\ Unchanged

InitMerge == Construct({<<>>}, {"tuple"})

NextMerge == \E left \in MergeEntries, right \in MergeEntries : Merge(left, right)

SpecMerge == InitMerge /\ [][NextMerge]_vars

(***************************************************************************)
(* Objects with identity.  The heap maps an address to an object: a plain  *)
(* dict, list or tuple, an AttrDict (a dict with two more fields) or an     *)
(* AttrMap (whose field _mapping is the address of the mapping it wraps).  *)
(* An entry or element is a scalar value or a reference to an object.      *)
(***************************************************************************)
Ref(a) == [t |-> "ref", s |-> a, m |-> <<>>, e |-> <<>>, f |-> FALSE]

HDict(entries) == [t |-> "dict", m |-> entries, e |-> <<>>, s |-> "", f |-> FALSE, b |-> ""]
HSeq(ty, elems) == [t |-> ty, m |-> <<>>, e |-> elems, s |-> "", f |-> FALSE, b |-> ""]
HAttrDict(entries, st, flag) ==
    [t |-> "AttrDict", m |-> entries, e |-> <<>>, s |-> st, f |-> flag, b |-> ""]
HAttrMap(backing, st, flag) ==
    [t |-> "AttrMap", m |-> <<>>, e |-> <<>>, s |-> st, f |-> flag, b |-> backing]

\* the address given to the next object
Fresh(h) == ToString(Cardinality(DOMAIN h) + 1)
Alloc(h, obj) == h @@ (Fresh(h) :> obj)

\* the object that holds the entries of the mapping at a: the dict itself,
\* or the mapping an AttrMap wraps (self._mapping)
Store(h, a) == IF h[a].t = "AttrMap" THEN h[a].b ELSE a
Entries(h, a) == h[Store(h, a)].m

IsMappingRef(h, c) == c.t = "ref" /\ h[c.s].t \in {"dict", "AttrDict", "AttrMap"}
IsSequenceRef(h, c) == c.t = "ref" /\ h[c.s].t \in {"list", "tuple"}

\* A variant of a[key] = cell that writes into the object itself, not into
\* the mapping an AttrMap wraps.
h_setitem_own(h, a, key, cell) == [h EXCEPT ![a].m = Put(@, key, cell)]

\* a[key] = cell and del a[key]: AttrMap.__setitem__/__delitem__ act on
\* self._mapping, AttrDict's (dict's) on the object itself
h_setitem(h, a, key, cell) == [h EXCEPT ![Store(h, a)].m = Put(@, key, cell)]
h_delitem(h, a, key) == [h EXCEPT ![Store(h, a)].m = Drop(@, key)]

\* A variant of the constructor in which AttrDict, too, wraps what it is given.
h_constructor_sharing(h, c, src, st) ==
    Alloc(h, HAttrMap(src, st, FALSE))

\* AttrDict._constructor: cls(mapping) is a new dict with the entries of
\* mapping.  AttrMap._constructor: cls(mapping, sequence_type) keeps the
\* mapping it is given as self._mapping.
h_constructor(h, c, src, st) ==
    IF c = "AttrDict"
    THEN Alloc(h, HAttrDict(Entries(h, src), st, FALSE))
    ELSE Alloc(h, HAttrMap(src, st, FALSE))

\* Attr._build(self, obj) with objects: the heap after it and the cell it
\* returns
RECURSIVE h_build(_, _, _)
RECURSIVE h_build_elements(_, _, _, _)
h_build(h, self, cell) ==
    IF IsMappingRef(h, cell)
    THEN [h |-> h_constructor(h, h[self].t, cell.s, h[self].s), c |-> Ref(Fresh(h))]
    ELSE IF IsSequenceRef(h, cell) /\ h[self].s # "None"
    THEN LET r == h_build_elements(h, self, h[cell.s].e, <<>>)
         IN  [h |-> Alloc(r.h, HSeq(h[self].s, r.e)), c |-> Ref(Fresh(r.h))]
    ELSE [h |-> h, c |-> cell]

h_build_elements(h, self, todo, done) ==
    IF todo = <<>>
    THEN [h |-> h, e |-> done]
    ELSE LET r == h_build(h, self, Head(todo))
         IN  h_build_elements(r.h, self, Tail(todo), Append(done, r.c))

\* the value at a cell, with every reference followed: what == compares
RECURSIVE Content(_, _)
Content(h, cell) ==
    IF cell.t # "ref" THEN cell
    ELSE IF IsMappingRef(h, cell)
    THEN [t |-> h[cell.s].t, s |-> h[cell.s].s, f |-> h[cell.s].f, e |-> <<>>,
          m |-> [k \in DOMAIN Entries(h, cell.s) |-> Content(h, Entries(h, cell.s)[k])]]
    ELSE [t |-> h[cell.s].t, s |-> "", f |-> FALSE, m |-> <<>>,
          e |-> [i \in 1..Len(h[cell.s].e) |-> Content(h, h[cell.s].e[i])]]

\* the value of the object the program calls name
Named(name) == Content(heap, Ref(refs[name]))
Bound(name) == name \in DOMAIN refs

\* what an operation on heap objects leaves alone
OneContainer ==
    UNCHANGED <<cls, mapping, sequence_type, allow_invalid_attributes, attrs,
                default_factory, pass_key>>

\* to = frm(key), or to = frm.key for an eligible key: the boxed value
HBox(frm, key, to) ==
    /\ frm \in DOMAIN refs
    /\ key \in DOMAIN Entries(heap, refs[frm])
    /\ h_build(heap, refs[frm], Entries(heap, refs[frm])[key]).c.t = "ref"
    /\ Cardinality(DOMAIN h_build(heap, refs[frm], Entries(heap, refs[frm])[key]).h) <= MaxObjects
    /\ heap' = h_build(heap, refs[frm], Entries(heap, refs[frm])[key]).h
    /\ refs' = Put(refs, to, h_build(heap, refs[frm], Entries(heap, refs[frm])[key]).c.s)
    /\ last' = Outcome("box", key, Str(frm), Ret(Str(to)))
    /\ OneContainer

\* name[key] = value
HSetItem(name, key, value) ==
    /\ name \in DOMAIN refs
    /\ heap' = h_setitem(heap, refs[name], key, value)
    /\ last' = Outcome("setitem", key, value, Ret(Str(name)))
    /\ UNCHANGED refs
    /\ OneContainer

\* name.key = value on a container: MutableAttr.__setattr__
HSetAttr(name, key, value) ==
    /\ name \in DOMAIN refs
    /\ heap[refs[name]].t \in Classes
    /\ IF Attr_valid_name(heap[refs[name]].t, key)
       THEN /\ heap' = h_setitem(heap, refs[name], key, value)
            /\ last' = Outcome("setattr", key, value, Ret(Str(name)))
       ELSE /\ heap' = heap
            /\ last' = Outcome("setattr", key, value, Raise("TypeError"))
    /\ UNCHANGED refs
    /\ OneContainer

\* del name[key]
HDelItem(name, key) ==
    /\ name \in DOMAIN refs
    /\ IF key \in DOMAIN Entries(heap, refs[name])
       THEN /\ heap' = h_delitem(heap, refs[name], key)
            /\ last' = Outcome("delitem", key, NoneV, Ret(Str(name)))
       ELSE /\ heap' = heap
            /\ last' = Outcome("delitem", key, NoneV, Raise("KeyError"))
    /\ UNCHANGED refs
    /\ OneContainer

\* del name.key on a container: MutableAttr.__delattr__
HDelAttr(name, key) ==
    /\ name \in DOMAIN refs
    /\ heap[refs[name]].t \in Classes
    /\ IF ~Attr_valid_name(heap[refs[name]].t, key)
       THEN /\ heap' = heap
            /\ last' = Outcome("delattr", key, NoneV, Raise("TypeError"))
       ELSE IF key \in DOMAIN Entries(heap, refs[name])
       THEN /\ heap' = h_delitem(heap, refs[name], key)
            /\ last' = Outcome("delattr", key, NoneV, Ret(Str(name)))
       ELSE /\ heap' = heap
            /\ last' = Outcome("delattr", key, NoneV, Raise("KeyError"))
    /\ UNCHANGED refs
    /\ OneContainer

\* name[key][inner] = value: a write into the stored nested mapping
HSetNested(name, key, inner, value) ==
    /\ name \in DOMAIN refs
    /\ key \in DOMAIN Entries(heap, refs[name])
    /\ IsMappingRef(heap, Entries(heap, refs[name])[key])
    /\ heap' = h_setitem(heap, Entries(heap, refs[name])[key].s, inner, value)
    /\ last' = Outcome("setnested", key, value, Ret(Str(name)))
    /\ UNCHANGED refs
    /\ OneContainer

\* obj = cls(src) on the heap h, in a program that also names the objects more
ConstructOn(h, src, more) ==
    /\ cls \in Classes
    /\ sequence_type = "tuple"
    /\ allow_invalid_attributes = FALSE
    /\ attrs = <<>>
    /\ mapping = <<>>
    /\ last = Outcome("init", NoKey, NoneV, Ret(NoneV))
    /\ default_factory = "None"
    /\ pass_key = FALSE
    /\ heap = h_constructor(h, cls, src, sequence_type)
    /\ refs = ("src" :> src) @@ ("obj" :> Fresh(h)) @@ more

(***************************************************************************)
(* Copies.  copy.copy and copy.deepcopy build the new object from          *)
(* __getstate__ and __setstate__: AttrMap's state holds self._mapping      *)
(* itself, AttrDict's a dict.copy() of its entries, which the new AttrDict *)
(* takes in with update.  copy.copy hands the state over as it is,          *)
(* copy.deepcopy hands over a deep copy of it.                              *)
(***************************************************************************)
\* copy.copy(a) for a container a: the heap after it and the new address
h_copy(h, a) ==
    [h |-> IF h[a].t = "AttrMap"
           THEN Alloc(h, HAttrMap(h[a].b, h[a].s, h[a].f))
           ELSE Alloc(h, HAttrDict(h[a].m, h[a].s, h[a].f)),
     a |-> Fresh(h)]

\* a.copy() for an AttrDict a: dict.copy, a plain dict
h_dict_copy(h, a) == [h |-> Alloc(h, HDict(h[a].m)), a |-> Fresh(h)]

\* copy.deepcopy of a cell: every object reached from it is built anew
RECURSIVE h_deepcopy_cell(_, _)
RECURSIVE h_deepcopy_entries(_, _, _, _)
RECURSIVE h_deepcopy_elements(_, _, _)
h_deepcopy_cell(h, cell) ==
    IF cell.t # "ref" THEN [h |-> h, c |-> cell]
    ELSE LET o == h[cell.s] IN
         IF o.t = "AttrMap"
         THEN LET r == h_deepcopy_cell(h, Ref(o.b))
              IN  [h |-> Alloc(r.h, HAttrMap(r.c.s, o.s, o.f)), c |-> Ref(Fresh(r.h))]
         ELSE IF o.t \in {"dict", "AttrDict"}
         THEN LET r == h_deepcopy_entries(h, o.m, DOMAIN o.m, <<>>)
              IN  [h |-> Alloc(r.h, [o EXCEPT !.m = r.m]), c |-> Ref(Fresh(r.h))]
         ELSE LET r == h_deepcopy_elements(h, o.e, <<>>)
              IN  [h |-> Alloc(r.h, [o EXCEPT !.e = r.e]), c |-> Ref(Fresh(r.h))]

h_deepcopy_entries(h, entries, todo, done) ==
    IF todo = {}
    THEN [h |-> h, m |-> done]
    ELSE LET k == CHOOSE x \in todo : TRUE
             r == h_deepcopy_cell(h, entries[k])
         IN  h_deepcopy_entries(r.h, entries, todo \ {k}, Put(done, k, r.c))

h_deepcopy_elements(h, todo, done) ==
    IF todo = <<>>
    THEN [h |-> h, e |-> done]
    ELSE LET r == h_deepcopy_cell(h, Head(todo))
         IN  h_deepcopy_elements(r.h, Tail(todo), Append(done, r.c))

\* A variant of deepcopy that copies the container only.
h_deepcopy_shallow(h, a) == h_copy(h, a)

\* copy.deepcopy(a) for a container a: the heap after it and the new address
h_deepcopy(h, a) ==
    [h |-> h_deepcopy_cell(h, Ref(a)).h, a |-> h_deepcopy_cell(h, Ref(a)).c.s]

\* the program takes one copy of obj
NoCopy == DOMAIN refs = {"src", "obj"}

\* shallow = copy.copy(obj)
Copy ==
    /\ NoCopy
    /\ heap' = h_copy(heap, refs["obj"]).h
    /\ refs' = Put(refs, "shallow", h_copy(heap, refs["obj"]).a)
    /\ last' = Outcome("copy", NoKey, NoneV, Ret(Str("shallow")))
    /\ OneContainer

\* plain = obj.copy(), which AttrDict has from dict
DictCopy ==
    /\ NoCopy
    /\ heap[refs["obj"]].t = "AttrDict"
    /\ heap' = h_dict_copy(heap, refs["obj"]).h
    /\ refs' = Put(refs, "plain", h_dict_copy(heap, refs["obj"]).a)
    /\ last' = Outcome("dictcopy", NoKey, NoneV, Ret(Str("plain")))
    /\ OneContainer

\* deep = copy.deepcopy(obj)
DeepCopy ==
    /\ NoCopy
    /\ heap' = h_deepcopy(heap, refs["obj"]).h
    /\ refs' = Put(refs, "deep", h_deepcopy(heap, refs["obj"]).a)
    /\ last' = Outcome("deepcopy", NoKey, NoneV, Ret(Str("deep")))
    /\ OneContainer

\* name[key][0][inner] = value: a write into a mapping held in a stored list
HSetInElement(name, key, inner, value) ==
    /\ name \in DOMAIN refs
    /\ key \in DOMAIN Entries(heap, refs[name])
    /\ IsSequenceRef(heap, Entries(heap, refs[name])[key])
    /\ IsMappingRef(heap, heap[Entries(heap, refs[name])[key].s].e[1])
    /\ heap' = h_setitem(heap, heap[Entries(heap, refs[name])[key].s].e[1].s, inner, value)
    /\ last' = Outcome("setinelement", key, value, Ret(Str(name)))
    /\ UNCHANGED refs
    /\ OneContainer

\* name[key].append(value) on a stored list
HAppend(name, key, value) ==
    /\ name \in DOMAIN refs
    /\ key \in DOMAIN Entries(heap, refs[name])
    /\ IsSequenceRef(heap, Entries(heap, refs[name])[key])
    /\ heap[Entries(heap, refs[name])[key].s].t = "list"
    /\ Len(heap[Entries(heap, refs[name])[key].s].e) < MaxSeqLen
    /\ heap' = [heap EXCEPT ![Entries(heap, refs[name])[key].s].e = Append(@, value)]
    /\ last' = Outcome("append", key, value, Ret(Str(name)))
    /\ UNCHANGED refs
    /\ OneContainer

\* obj is built from {'foo': {'bar': 'baz'}, 'l': [{'a': 'b'}], 'c': 'bar'}
KeyBar == StrKey(<<"b", "a", "r">>)
KeyL == StrKey(<<"l">>)
KeyAlpha == StrKey(<<"a", "l", "p", "h", "a">>)
VBaz == Str("baz")

Original ==
    ("1" :> HDict(KeyA :> Str("b")))
    @@ ("2" :> HSeq("list", <<Ref("1")>>))
    @@ ("3" :> HDict(KeyBar :> VBaz))
    @@ ("4" :> HDict((KeyFoo :> Ref("3")) @@ (KeyL :> Ref("2")) @@ (KeyC :> VBar)))

CopyNames == {"obj", "shallow", "plain", "deep"}

InitCopy ==
    /\ cls \in Classes
    /\ sequence_type \in SeqTypes
    /\ allow_invalid_attributes \in BOOLEAN
    /\ attrs = <<>>
    /\ mapping = <<>>
    /\ last = Outcome("init", NoKey, NoneV, Ret(NoneV))
    /\ default_factory = "None"
    /\ pass_key = FALSE
    /\ heap = [h_constructor(Original, cls, "4", sequence_type)
                EXCEPT ![Fresh(Original)].f = allow_invalid_attributes]
    /\ refs = ("src" :> "4") @@ ("obj" :> Fresh(Original))

NextCopy ==
    \/ Copy
    \/ DictCopy
    \/ DeepCopy
    \/ \E name \in CopyNames : HSetItem(name, KeyC, VQux)
    \/ \E name \in CopyNames : HSetAttr(name, KeyC, VQux)
    \/ \E name \in CopyNames : HDelItem(name, KeyC)
    \/ \E name \in CopyNames : HSetNested(name, KeyFoo, KeyBar, VQux)
    \/ \E name \in CopyNames : HSetInElement(name, KeyL, KeyA, VQux)
    \/ \E name \in CopyNames : HAppend(name, KeyL, VQux)

SpecCopy == InitCopy /\ [][NextCopy]_vars

(***************************************************************************)
(* Addition with objects.  merge(left, right), from its contract, returns  *)
(* a newly allocated plain mapping and mutates neither input; a value held *)
(* by one side only is the same object in the result.                      *)
(***************************************************************************)
RECURSIVE h_merge_into(_, _, _, _, _)
h_merge_into(h, out, left, right, todo) ==
    IF todo = {} THEN h
    ELSE LET k == CHOOSE x \in todo : TRUE
             L == Entries(h, left)
             R == Entries(h, right)
         IN  IF k \notin DOMAIN R
             THEN h_merge_into(h_setitem(h, out, k, L[k]), out, left, right, todo \ {k})
             ELSE IF k \notin DOMAIN L
             THEN h_merge_into(h_setitem(h, out, k, R[k]), out, left, right, todo \ {k})
             ELSE IF IsMappingRef(h, L[k]) /\ IsMappingRef(h, R[k])
             THEN LET sub == Fresh(h)
                      inner == h_merge_into(Alloc(h, HDict(<<>>)), sub, L[k].s, R[k].s,
                                   DOMAIN Entries(h, L[k].s) \cup DOMAIN Entries(h, R[k].s))
                  IN  h_merge_into(h_setitem(inner, out, k, Ref(sub)), out, left, right,
                                   todo \ {k})
             ELSE h_merge_into(h_setitem(h, out, k, R[k]), out, left, right, todo \ {k})

\* merge(left, right): the heap after it and the address of the result
h_merge(h, left, right) ==
    [h |-> h_merge_into(Alloc(h, HDict(<<>>)), Fresh(h), left, right,
                        DOMAIN Entries(h, left) \cup DOMAIN Entries(h, right)),
     a |-> Fresh(h)]

\* A variant of __add__ that takes the entries of other into self.
h_add_inplace(h, self, other) ==
    [h |-> [h EXCEPT ![Store(h, self)].m = Overwrite(@, Entries(h, other))], a |-> self]

\* Attr.__add__(self, other) for a mapping other
h_add(h, self, other) ==
    [h |-> h_constructor(h_merge(h, self, other).h, h[self].t,
                         h_merge(h, self, other).a, h[self].s),
     a |-> Fresh(h_merge(h, self, other).h)]

\* Attr.__radd__(self, other) for a mapping other
h_radd(h, self, other) ==
    [h |-> h_constructor(h_merge(h, other, self).h, h[self].t,
                         h_merge(h, other, self).a, h[self].s),
     a |-> Fresh(h_merge(h, other, self).h)]

\* the program adds once
NoSum == ~Bound("sum")

\* sum = merge(left, right)
HMerge(left, right) ==
    /\ NoSum
    /\ heap' = h_merge(heap, refs[left], refs[right]).h
    /\ refs' = Put(refs, "sum", h_merge(heap, refs[left], refs[right]).a)
    /\ last' = Outcome("merge", NoKey, Str(left), Ret(Str("sum")))
    /\ OneContainer

\* sum = obj + other
HAdd ==
    /\ NoSum
    /\ IF IsMappingRef(heap, Ref(refs["other"]))
       THEN /\ heap' = h_add(heap, refs["obj"], refs["other"]).h
            /\ refs' = Put(refs, "sum", h_add(heap, refs["obj"], refs["other"]).a)
            /\ last' = Outcome("add", NoKey, NoneV, Ret(Str("sum")))
       ELSE /\ UNCHANGED <<heap, refs>>
            /\ last' = Outcome("add", NoKey, NoneV, NotImplemented)
    /\ OneContainer

\* sum = other + obj
HRAdd ==
    /\ NoSum
    /\ IF IsMappingRef(heap, Ref(refs["other"]))
       THEN /\ heap' = h_radd(heap, refs["obj"], refs["other"]).h
            /\ refs' = Put(refs, "sum", h_radd(heap, refs["obj"], refs["other"]).a)
            /\ last' = Outcome("radd", NoKey, NoneV, Ret(Str("sum")))
       ELSE /\ UNCHANGED <<heap, refs>>
            /\ last' = Outcome("radd", NoKey, NoneV, NotImplemented)
    /\ OneContainer

\* obj is built from {'foo': {'bar': 'baz'}, 'c': 'bar'}, and other is
\* {'foo': {'a': 'b'}, 'c': 'qux', 'alpha': 'bravo'}
Operands ==
    ("1" :> HDict(KeyBar :> VBaz))
    @@ ("2" :> HDict((KeyFoo :> Ref("1")) @@ (KeyC :> VBar)))
    @@ ("3" :> HDict(KeyA :> Str("b")))
    @@ ("4" :> HDict((KeyFoo :> Ref("3")) @@ (KeyC :> VQux) @@ (KeyAlpha :> Str("bravo"))))

SumValues == {VQux, VInt}

InitSum == ConstructOn(Operands, "2", "other" :> "4")

NextSum ==
    \/ \E left, right \in {"obj", "other"} : HMerge(left, right)
    \/ HAdd
    \/ HRAdd
    \/ \E name \in {"obj", "other"} : HSetItem(name, KeyC, VInt)
    \/ \E name \in {"obj", "other"} : HDelItem(name, KeyC)
    \/ \E key \in {KeyC, KeyL}, value \in SumValues : HSetItem("sum", key, value)
    \/ \E value \in SumValues : HSetAttr("sum", KeyC, value)
    \/ HDelItem("sum", KeyC)
    \/ HDelAttr("sum", KeyC)

SpecSum == InitSum /\ [][NextSum]_vars

(***************************************************************************)
(* Nested assignment: obj is built from {'foo': {'bar': 'baz', 'sub':      *)
(* {'a': 'b'}}}; child = obj.foo and grandchild = child.sub are boxed, and *)
(* the program writes and deletes through them.                            *)
(***************************************************************************)
KeySub == StrKey(<<"s", "u", "b">>)

Nested ==
    ("1" :> HDict(KeyA :> Str("b")))
    @@ ("2" :> HDict((KeyBar :> VBaz) @@ (KeySub :> Ref("1"))))
    @@ ("3" :> HDict(KeyFoo :> Ref("2")))

ShareValues == {VQux, Str("bravo")}

InitShare == ConstructOn(Nested, "3", <<>>)

NextShare ==
    \/ HBox("obj", KeyFoo, "child")
    \/ HBox("child", KeySub, "grandchild")
    \/ \E key \in {KeyBar, KeyAlpha}, value \in ShareValues : HSetAttr("child", key, value)
    \/ HSetItem("child", KeyBar, VQux)
    \/ \E key \in {KeyBar, KeyAlpha} : HDelAttr("child", key)
    \/ \E key \in {KeyBar, KeyAlpha} : HDelItem("child", key)
    \/ HSetAttr("grandchild", KeyA, VQux)
    \/ HSetNested("child", KeySub, KeyA, VQux)
    \/ HSetItem("obj", KeyC, VQux)

SpecShare == InitShare /\ [][NextShare]_vars

(***************************************************************************)
(* Properties.                                                             *)
(***************************************************************************)
\* box(v) for the container: self._build(v)
Box(v) == Attr_build(cls, sequence_type, v)

\* x == y in Python: mappings are equal when their entries are, whatever
\* their class and configuration; sequences when they have the same type and
\* equal elements
RECURSIVE PyEq(_, _)
PyEq(x, y) ==
    IF IsMapping(x) /\ IsMapping(y)
    THEN /\ DOMAIN x.m = DOMAIN y.m
         /\ \A k \in DOMAIN x.m : PyEq(x.m[k], y.m[k])
    ELSE IF IsSequence(x) /\ IsSequence(y)
    THEN /\ x.t = y.t
         /\ Len(x.e) = Len(y.e)
         /\ \A i \in 1..Len(x.e) : PyEq(x.e[i], y.e[i])
    ELSE x = y

\* the last operation created or replaced the entry of an eligible key:
\* by obj.k = v, by obj[k] = v, or by construction from a mapping
WroteEligible ==
    /\ last.op \in {"setattr", "setitem"}
    /\ last.status = "ok"
    /\ Attr_valid_name(cls, last.key)

\* C1 as stated: after obj.k = v (or obj[k] = v, or construction from a
\* mapping) with an eligible key k, k is a key, obj[k] is v, and obj(k) and
\* obj.k are box(v); the attribute write changes what the keyed write
\* changes, and no other entry.
C1_AttrWriteIsKeyedWrite ==
    /\ [](WroteEligible =>
            /\ last.key \in DOMAIN mapping
            /\ getitem(last.key) = Ret(last.val)
            /\ Attr_call(last.key) = Ret(Box(last.val))
            /\ attribute_read(last.key) = Ret(Box(last.val)))
    /\ [](last.op = "init" =>
            \A k \in DOMAIN mapping : Attr_valid_name(cls, k) =>
                /\ Attr_call(k) = Ret(Box(mapping[k]))
                /\ attribute_read(k) = Ret(Box(mapping[k])))
    /\ [][(last'.op = "setattr" /\ Attr_valid_name(cls, last'.key)) =>
            /\ last'.status = "ok"
            /\ mapping' = Put(mapping, last'.key, last'.val)
            /\ attrs' = attrs]_vars

\* C1 as amended: the same, except that obj.k is the object-level attribute
\* named k when one has been set through the raw escape hatch; obj[k] and
\* obj(k) are not affected by it.
C1_AttrWriteIsKeyedWriteUnlessShadowed ==
    /\ [](WroteEligible =>
            /\ last.key \in DOMAIN mapping
            /\ getitem(last.key) = Ret(last.val)
            /\ Attr_call(last.key) = Ret(Box(last.val))
            /\ attribute_read(last.key) =
                   IF last.key \in DOMAIN attrs
                   THEN Ret(attrs[last.key])
                   ELSE Ret(Box(last.val)))
    /\ [](last.op = "init" =>
            \A k \in DOMAIN mapping : Attr_valid_name(cls, k) =>
                /\ Attr_call(k) = Ret(Box(mapping[k]))
                /\ attribute_read(k) = Ret(Box(mapping[k])))
    /\ [][(last'.op = "setattr" /\ Attr_valid_name(cls, last'.key)) =>
            /\ last'.status = "ok"
            /\ mapping' = Put(mapping, last'.key, last'.val)
            /\ attrs' = attrs]_vars

\* an attribute write of a mapping value under an eligible key, beside
\* another entry, with no object-level attribute of that name
C1_Witness ==
    /\ last.op = "setattr"
    /\ last.status = "ok"
    /\ Attr_valid_name(cls, last.key)
    /\ last.val = VSub
    /\ last.key \notin DOMAIN attrs
    /\ Cardinality(DOMAIN mapping) = 2

\* C2 as stated: obj.k raises AttributeError exactly when k is not a key or
\* k is not attribute-eligible, and is box(obj[k]) in every other case, for
\* every name k.
C2_AttrReadFailsIffAbsentOrIneligible ==
    last.op = "getattr" =>
        IF last.key \notin DOMAIN mapping \/ ~Attr_valid_name(cls, last.key)
        THEN last.status = "AttributeError"
        ELSE last.status = "ok" /\ last.res = Box(mapping[last.key])

\* C2 as amended: the statement holds for the names that normal attribute
\* lookup does not find; a name of an object-level attribute reads as that
\* attribute and a name of a member found through the class reads as the
\* member, and neither read raises nor consults the mapping.
C2_AttrReadAfterNormalLookup ==
    last.op = "getattr" =>
        IF last.key \in DOMAIN attrs
        THEN last.status = "ok" /\ last.res = attrs[last.key]
        ELSE IF last.key \in InstanceMembers(cls)
        THEN last.status = "ok" /\ last.res = ClassMember
        ELSE IF last.key \notin DOMAIN mapping \/ ~Attr_valid_name(cls, last.key)
        THEN last.status = "AttributeError"
        ELSE last.status = "ok" /\ last.res = Box(mapping[last.key])

\* an attribute read of a hidden key that is present, refused although no
\* attribute or member of that name exists
C2_Witness ==
    /\ last.op = "getattr"
    /\ last.key = KeyHidden
    /\ KeyHidden \in DOMAIN mapping
    /\ KeyHidden \notin DOMAIN attrs
    /\ last.status = "AttributeError"

\* C3: call-style access obj(key) raises AttributeError exactly when key is
\* not in the mapping, whatever the kind of key (integer, reserved name,
\* hidden name, non-ASCII name), and otherwise returns box(obj[key]).
C3_CallWorksForEveryKey ==
    last.op = "call" =>
        IF last.key \in DOMAIN mapping
        THEN last.status = "ok" /\ last.res = Box(mapping[last.key])
        ELSE last.status = "AttributeError"

\* a call-style read of a present key that is not attribute-eligible and
\* whose value boxing changes
C3_Witness ==
    /\ last.op = "call"
    /\ last.status = "ok"
    /\ last.key \in {KeyThree, KeyGet, KeyHidden, KeyGhost}
    /\ last.res # mapping[last.key]

\* C7: reads never change the container (entries, sequence type, flag), and
\* obj[k] and obj.get(k) return the stored value as it is: a stored plain
\* mapping or sequence keeps its type and its elements stay plain.
C7_ReadsDoNotWriteBack ==
    /\ [][last'.op \in {"getattr", "call", "getitem", "get"} =>
            UNCHANGED <<cls, mapping, sequence_type, allow_invalid_attributes, attrs>>]_vars
    /\ []((last.op \in {"getitem", "get"} /\ last.key \in DOMAIN mapping) =>
            /\ last.status = "ok"
            /\ last.res = mapping[last.key]
            /\ ~IsContainer(last.res)
            /\ \A i \in DOMAIN last.res.e : ~IsContainer(last.res.e[i]))
    /\ [](\A k \in DOMAIN mapping :
            /\ ~IsContainer(mapping[k])
            /\ \A i \in DOMAIN mapping[k].e : ~IsContainer(mapping[k].e[i]))

\* a call-style read boxed a sequence of mappings
C7_Witness ==
    /\ last.op = "call"
    /\ last.status = "ok"
    /\ IsSequence(mapping[last.key])
    /\ \E i \in DOMAIN last.res.e : IsContainer(last.res.e[i])

\* C4 (as stated): _valid_name(key) is true iff key is a string, the whole
\* key is one ASCII letter followed only by ASCII letters, digits and
\* underscores, and key is not the name of a member found on the class.
\* The code's answer for the key "a" followed by a newline is true.
C4_ValidNameIffWholeKeyMatches ==
    last.op = "_valid_name" =>
        (last.res = Bool(TRUE) <=>
            /\ last.key.str
            /\ Len(last.key.cs) >= 1
            /\ last.key.cs[1] \in AsciiLetters
            /\ \A i \in 2..Len(last.key.cs) : last.key.cs[i] \in WordChars
            /\ ~hasattr_cls(cls, last.key))

\* what box(v) must be, case by case, for receiver class c and sequence type st
RECURSIVE BoxedAs(_, _, _, _)
BoxedAs(c, st, v, r) ==
    CASE v.t \in {"str", "bytes"} -> r = v
      [] v.t \in {"dict", "AttrDict", "AttrMap"} ->
            r.t = c /\ r.m = v.m /\ r.s = st
      [] v.t \in {"list", "tuple"} /\ st # "None" ->
            /\ r.t = st
            /\ Len(r.e) = Len(v.e)
            /\ \A i \in 1..Len(v.e) : BoxedAs(c, st, v.e[i], r.e[i])
      [] OTHER -> r = v

\* C6: _build returns v itself for a string or bytes; a new container of the
\* receiver's class with v's entries and the receiver's sequence type for a
\* mapping; for a sequence, when the sequence type is not None, an instance
\* of the sequence type of the same length whose elements are boxed
\* recursively; v itself otherwise, so with sequence type None the mapping
\* elements of a sequence stay plain.
C6_BuildByCases ==
    last.op = "_build" =>
        /\ last.status = "ok"
        /\ BoxedAs(cls, sequence_type, last.val, last.res)
        /\ (IsSequence(last.val) /\ sequence_type = "None") =>
                \A i \in 1..Len(last.res.e) :
                    last.res.e[i] = last.val.e[i]

\* a list holding a tuple of a mapping was boxed: the innermost mapping is a
\* container of the receiver's class
C6_Witness ==
    /\ last.op = "_build"
    /\ last.val.t = "list"
    /\ sequence_type = "tuple"
    /\ \E i \in 1..Len(last.res.e) :
          /\ last.val.e[i].t = "list"
          /\ last.res.e[i].t = "tuple"
          /\ \E j \in 1..Len(last.res.e[i].e) :
                /\ last.res.e[i].e[j].t = "tuple"
                /\ \E n \in 1..Len(last.res.e[i].e[j].e) :
                      last.res.e[i].e[j].e[n].t = cls

\* C5 (as stated): for a key naming a class member, obj[k] and obj(k) return
\* the stored value whenever k is present, obj.k is always the class member,
\* and with the flag false obj.k = v and del obj.k raise TypeError and leave
\* the entry of k unchanged.
C5_MemberNeverShadowed ==
    /\ []((last.op \in {"getitem", "call"} /\ hasattr_cls(cls, last.key)
              /\ last.key \in DOMAIN mapping) =>
            last.status = "ok" /\ PyEq(last.res, mapping[last.key]))
    /\ [](\A k \in MemberKeys : hasattr_cls(cls, k) => attribute_read(k) = Ret(ClassMember))
    /\ [][(last'.op \in {"setattr", "delattr"} /\ hasattr_cls(cls, last'.key)
              /\ ~allow_invalid_attributes) =>
            last'.status = "TypeError" /\ mapping' = mapping]_vars

\* C5 (amended): obj[k] returns the stored value and obj(k) its box; obj.k
\* never reads the mapping: it is the object-level attribute k when there is
\* one, else the class member when instances inherit it, else (a name found
\* on the class object only) AttributeError; with the flag false obj.k = v
\* and del obj.k raise TypeError and change neither entries nor attributes.
C5_MemberReadsNeverReachMapping ==
    /\ []((last.op = "getitem" /\ hasattr_cls(cls, last.key)
              /\ last.key \in DOMAIN mapping) =>
            last.status = "ok" /\ last.res = mapping[last.key])
    /\ []((last.op = "call" /\ hasattr_cls(cls, last.key)
              /\ last.key \in DOMAIN mapping) =>
            last.status = "ok" /\ last.res = Box(mapping[last.key]))
    /\ [](\A k \in MemberKeys : hasattr_cls(cls, k) =>
            attribute_read(k) =
                IF k \in DOMAIN attrs THEN Ret(attrs[k])
                ELSE IF k \in InstanceMembers(cls) THEN Ret(ClassMember)
                ELSE Raise("AttributeError"))
    /\ [][(last'.op \in {"setattr", "delattr"} /\ hasattr_cls(cls, last'.key)
              /\ ~allow_invalid_attributes) =>
            last'.status = "TypeError" /\ mapping' = mapping /\ attrs' = attrs]_vars

\* obj.get = v was refused while the key get is present in the mapping
C5_Witness ==
    /\ last.op = "setattr"
    /\ last.key = KeyGet
    /\ last.status = "TypeError"
    /\ ~allow_invalid_attributes
    /\ KeyGet \in DOMAIN mapping
    /\ attribute_read(KeyGet) = Ret(ClassMember)

\* C8: under keyed and attribute writes and deletes, pop, popitem, clear,
\* update and setdefault, for every eligible key k: k is in the container
\* iff obj[k] succeeds iff obj.k succeeds; obj.k is box(obj[k]); del obj.k
\* has the effect of del obj[k]; once k is removed obj.k raises
\* AttributeError and obj[k] raises KeyError.
C8_KeyedAndAttributePathsAgree ==
    /\ [](\A k \in MutKeys : Attr_valid_name(cls, k) =>
            /\ (k \in DOMAIN mapping <=> getitem(k).status = "ok")
            /\ (k \in DOMAIN mapping <=> attribute_read(k).status = "ok")
            /\ k \in DOMAIN mapping => attribute_read(k).res = Box(getitem(k).res))
    /\ [][(last'.op = "delattr" /\ Attr_valid_name(cls, last'.key)) =>
            /\ attrs' = attrs
            /\ IF last'.key \in DOMAIN mapping
               THEN last'.status = "ok" /\ mapping' = Drop(mapping, last'.key)
               ELSE last'.status = "KeyError" /\ mapping' = mapping]_vars
    /\ [][\A k \in MutKeys :
            (/\ Attr_valid_name(cls, k)
             /\ k \in DOMAIN mapping
             /\ last'.status = "ok"
             /\ \/ last'.op \in {"delitem", "delattr", "pop", "popitem"} /\ last'.key = k
                \/ last'.op = "clear") =>
            /\ attribute_read(k)'.status = "AttributeError"
            /\ getitem(k)'.status = "KeyError"]_vars

\* del obj.k removed an eligible key while another eligible key stays
C8_Witness ==
    /\ last.op = "delattr"
    /\ last.status = "ok"
    /\ Attr_valid_name(cls, last.key)
    /\ last.key \notin DOMAIN mapping
    /\ \E k \in DOMAIN mapping : Attr_valid_name(cls, k)

\* out holds every key of l and r: the value of the one side that has the
\* key, the merge of the two values when both are mappings, else r's value
RECURSIVE MergedAs(_, _, _)
MergedAs(l, r, out) ==
    /\ DOMAIN out = DOMAIN l \cup DOMAIN r
    /\ \A k \in DOMAIN out :
          IF k \notin DOMAIN r THEN out[k] = l[k]
          ELSE IF k \notin DOMAIN l THEN out[k] = r[k]
          ELSE IF IsMapping(l[k]) /\ IsMapping(r[k])
          THEN out[k].t = "dict" /\ MergedAs(l[k].m, r[k].m, out[k].m)
          ELSE out[k] = r[k]

\* C9: c + m is a new container of c's class whose entries are merge(c, m);
\* m + c, m a plain mapping, is a container of c's class whose entries are
\* merge(m, c); the result has the sequence type of the container that
\* constructed it: the left operand when both operands are containers.
C9_AdditionMergesRightBiased ==
    /\ (last.op = "add" /\ IsMapping(last.val)) =>
            /\ last.status = "ok"
            /\ last.res.t = cls
            /\ last.res.s = sequence_type
            /\ MergedAs(mapping, last.val.m, last.res.m)
    /\ (last.op = "radd" /\ last.val.t = "dict") =>
            /\ last.status = "ok"
            /\ last.res.t = cls
            /\ last.res.s = sequence_type
            /\ MergedAs(last.val.m, mapping, last.res.m)
    /\ (last.op = "radd" /\ IsContainer(last.val)) =>
            /\ last.status = "ok"
            /\ last.res.t = last.val.t
            /\ last.res.s = last.val.s
            /\ MergedAs(last.val.m, mapping, last.res.m)

\* a plain mapping was added on the left of the container and two nested
\* mappings under a shared key were merged
C9_Witness ==
    /\ last.op = "radd"
    /\ last.val.t = "dict"
    /\ last.status = "ok"
    /\ \E k \in DOMAIN mapping \cap DOMAIN last.val.m :
          /\ IsMapping(mapping[k]) /\ IsMapping(last.val.m[k])
          /\ mapping[k] # last.val.m[k]
          /\ last.res.m[k] # mapping[k]
          /\ last.res.m[k] # last.val.m[k]

\* a and b hold unequal values under a shared key, one of them not a mapping
Disagree(a, b) ==
    \E k \in DOMAIN a \cap DOMAIN b :
        /\ ~PyEq(a[k], b[k])
        /\ ~IsMapping(a[k]) \/ ~IsMapping(b[k])

\* C10: for containers a and b that hold unequal values under a shared key,
\* at least one of the two values not a mapping, a + b != b + a.
C10_AdditionNotCommutative ==
    (last.op = "add" /\ IsContainer(last.val) /\ Disagree(mapping, last.val.m)) =>
        /\ last.status = "ok"
        /\ Plus(last.val, Self).status = "ok"
        /\ ~PyEq(last.res, Plus(last.val, Self).res)

\* two containers that disagree on a shared scalar key were added
C10_Witness ==
    /\ last.op = "add"
    /\ last.status = "ok"
    /\ IsContainer(last.val)
    /\ last.val.t # cls
    /\ Disagree(mapping, last.val.m)
    /\ Cardinality(DOMAIN last.res.m) = 2

\* C11: merge(left, right) has the union of the two key sets; under each key
\* the only side's value, the merge of the two values when both are
\* mappings, and right's value otherwise; hence merge(m, {}) == m,
\* merge({}, m) == m and merge(m, m) == m.
C11_MergeIsRightBiasedUnion ==
    last.op = "merge" =>
        LET left == last.val.e[1].m
            right == last.val.e[2].m
        IN  /\ last.res.t = "dict"
            /\ MergedAs(left, right, last.res.m)
            /\ right = <<>> => PyEq(last.res, Dict(left))
            /\ left = <<>> => PyEq(last.res, Dict(right))
            /\ left = right => PyEq(last.res, Dict(left))

\* two mappings holding different nested mappings under the same key were
\* merged into one holding the keys of both nested mappings
C11_Witness ==
    /\ last.op = "merge"
    /\ last.val.e[1].m = (KeyFoo :> Dict(KeyA :> Str("z")))
    /\ last.val.e[2].m = (KeyFoo :> Dict(KeyC :> Str("d")))
    /\ last.res = Dict(KeyFoo :> Dict((KeyA :> Str("z")) @@ (KeyC :> Str("d"))))

\* C13: the container restored from the serialized state of c has the class
\* of c, equals c as a mapping, and has the sequence type and the flag of
\* c: keyed reads return the stored values, attribute reads box as in c.
C13_PickleRoundTrip ==
    last.op = "pickle" =>
        /\ last.status = "ok"
        /\ last.res.t = cls
        /\ PyEq(last.res, Self)
        /\ last.res.s = sequence_type
        /\ last.res.f = allow_invalid_attributes
        /\ \A k \in DOMAIN mapping :
              /\ last.res.m[k] = mapping[k]
              /\ Attr_build(last.res.t, last.res.s, last.res.m[k]) = Box(mapping[k])

\* a container with the flag set, no sequence conversion and a stored list
\* went through the round trip
C13_Witness ==
    /\ last.op = "pickle"
    /\ allow_invalid_attributes
    /\ sequence_type = "None"
    /\ cls = "AttrMap"
    /\ \E k \in DOMAIN mapping : mapping[k].t = "list" /\ last.res.m[k].t = "list"

\* v, reached from a container with sequence type st, carries st: a
\* container has sequence type st and so has everything read from it, by
\* any chain of reads; a sequence was rebuilt as st, or when st is None is
\* left as stored, with plain elements at every depth.
RECURSIVE Propagated(_, _)
Propagated(st, v) ==
    IF IsContainer(v)
    THEN /\ v.s = st
         /\ \A k \in DOMAIN v.m : Propagated(st, Attr_build(v.t, v.s, v.m[k]))
    ELSE IF IsSequence(v)
    THEN /\ st # "None" => v.t = st
         /\ \A i \in 1..Len(v.e) :
               IF st = "None"
               THEN ~IsContainer(v.e[i]) /\ (IsSequence(v.e[i]) => Propagated(st, v.e[i]))
               ELSE Propagated(st, v.e[i])
    ELSE TRUE

\* C14: a container produced from c by boxing (a read of a mapping value or
\* of a sequence holding mappings), by addition or by deserialization has
\* the sequence type of c, and so has everything reached from it by a chain
\* of reads; with sequence type None sequences stay unconverted at every
\* depth.
C14_SequenceTypePropagates ==
    (last.op \in {"call", "getattr", "add", "radd", "pickle"} /\ last.status = "ok") =>
        /\ Propagated(sequence_type, last.res)
        /\ (sequence_type = "None" /\ last.op \in {"call", "getattr"}
                /\ IsSequence(mapping[last.key])) => last.res = mapping[last.key]

\* a read boxed a mapping whose nested mapping holds a sequence of mappings,
\* under sequence type list
C14_Witness ==
    /\ last.op = "getattr"
    /\ last.status = "ok"
    /\ sequence_type = "list"
    /\ mapping[KeyFoo] = Dict(KeyA :> Dict(KeyC :> Tuple(<<VSub>>)))
    /\ Attr_build(last.res.t, last.res.s, last.res.m[KeyA]).s = "list"

\* the last step was obj.name = v or del obj.name for an ineligible name
InvalidWrite == last'.op \in {"setattr", "delattr"} /\ ~Attr_valid_name(cls, last'.key)

\* the step treated the name as an ordinary object-level attribute (flag
\* true) or refused it with TypeError (flag false)
AsObjectAttribute ==
    IF ~allow_invalid_attributes
    THEN last'.status = "TypeError" /\ attrs' = attrs
    ELSE IF last'.op = "setattr"
    THEN last'.status = "ok" /\ attrs' = Put(attrs, last'.key, last'.val)
    ELSE IF last'.key \in DOMAIN attrs
    THEN last'.status = "ok" /\ attrs' = Drop(attrs, last'.key)
    ELSE last'.status = "AttributeError" /\ attrs' = attrs

\* C15 (as stated): for every ineligible name, with the flag true obj.name = v
\* sets and del obj.name deletes an object-level attribute, with the flag
\* false both raise TypeError and the attribute is as before; in all cases
\* the entries of the mapping are unchanged.
C15_InvalidNamesNeverTouchMapping ==
    [][InvalidWrite => (AsObjectAttribute /\ mapping' = mapping)]_vars

\* C15 (amended): the same for every ineligible name except the field
\* _mapping of AttrMap: with the flag true obj._mapping = m makes the
\* entries of m the entries of the container.
C15_InvalidNamesExceptStorageField ==
    [][InvalidWrite =>
        IF cls = "AttrMap" /\ last'.key = KeyMapping /\ allow_invalid_attributes
        THEN last'.status = "ok" /\ mapping' = last'.val.m /\ attrs' = attrs
        ELSE AsObjectAttribute /\ mapping' = mapping]_vars

\* del obj._key removed an object-level attribute of a container that holds
\* the key _key, which stays
C15_Witness ==
    /\ last.op = "delattr"
    /\ last.status = "ok"
    /\ last.key = KeyHidden
    /\ allow_invalid_attributes
    /\ KeyHidden \in DOMAIN mapping
    /\ KeyHidden \notin DOMAIN attrs

\* the last step looked up, by key or by attribute, an absent key (an
\* eligible one in the case of the attribute read)
AbsentLookup ==
    /\ last'.op \in {"getitem", "getattr"}
    /\ last'.key \notin DOMAIN mapping
    /\ last'.op = "getattr" => Attr_valid_name(cls, last'.key)

\* C16 (as stated): looking up an absent key returns factory(k) with
\* pass_key set and factory() without, by key and by attribute alike, and
\* stores the value under k first; with no factory it raises KeyError
\* (attribute read: AttributeError) and the container is unchanged.
C16_MissingKeyIsSynthesizedAndStored ==
    [][AbsentLookup =>
        IF default_factory = "None"
        THEN /\ last'.status = (IF last'.op = "getitem" THEN "KeyError" ELSE "AttributeError")
             /\ mapping' = mapping
        ELSE /\ last'.status = "ok"
             /\ PyEq(last'.res, call_factory(last'.key))
             /\ mapping' = Put(mapping, last'.key, call_factory(last'.key))]_vars

\* C16 (amended): the same, except that the attribute read returns the box
\* of the value it has stored.
C16_MissingKeyIsStoredAttributeReadBoxes ==
    [][AbsentLookup =>
        IF default_factory = "None"
        THEN /\ last'.status = (IF last'.op = "getitem" THEN "KeyError" ELSE "AttributeError")
             /\ mapping' = mapping
        ELSE /\ last'.status = "ok"
             /\ mapping' = Put(mapping, last'.key, call_factory(last'.key))
             /\ last'.res = IF last'.op = "getitem"
                            THEN call_factory(last'.key)
                            ELSE Attr_build(cls, sequence_type, call_factory(last'.key))]_vars

\* the attribute read of an absent key stored the factory's value, which is
\* now the value of the key
C16_Witness ==
    /\ last.op = "getattr"
    /\ last.status = "ok"
    /\ default_factory = "double"
    /\ last.key = KeyA
    /\ last.res = Str("aa")
    /\ mapping[KeyA] = Str("aa")
    /\ KeyFoo \in DOMAIN mapping

\* a write or delete that succeeded on the object called name
WroteThrough(name) ==
    /\ last.op \in {"setattr", "setitem"}
    /\ last.status = "ok"
    /\ last.res = Str(name)
DeletedThrough(name) ==
    /\ last.op \in {"delattr", "delitem"}
    /\ last.status = "ok"
    /\ last.res = Str(name)

\* the writes made through the children boxed from obj.foo and obj.foo.sub
\* show in the value obj['foo']
SeenThroughParent ==
    /\ Bound("child") => PyEq(Named("child"), Named("obj").m[KeyFoo])
    /\ Bound("grandchild") => PyEq(Named("grandchild"), Named("obj").m[KeyFoo].m[KeySub])
    /\ WroteThrough("child") =>
            /\ last.key \in DOMAIN Named("obj").m[KeyFoo].m
            /\ Named("obj").m[KeyFoo].m[last.key] = last.val
    /\ DeletedThrough("child") => last.key \notin DOMAIN Named("obj").m[KeyFoo].m
    /\ WroteThrough("grandchild") =>
            Named("obj").m[KeyFoo].m[KeySub].m[last.key] = last.val

\* C18: on AttrMap a boxed child uses the parent's stored nested mapping as
\* its backing store, so attribute assignment through obj.foo (and through
\* obj.foo.sub) is seen in obj['foo'] and in the container's value
C18_AttrMapChildWritesThrough ==
    cls = "AttrMap" =>
        /\ Bound("child") => Store(heap, refs["child"]) = Entries(heap, refs["obj"])[KeyFoo].s
        /\ SeenThroughParent

\* obj.foo.bar = 'qux'; obj.foo.alpha = 'bravo' on an AttrMap
C18_Witness ==
    /\ cls = "AttrMap"
    /\ WroteThrough("child")
    /\ last.key = KeyAlpha
    /\ Named("obj").m[KeyFoo].m[KeyBar] = VQux
    /\ Named("obj").m[KeyFoo].m[KeyAlpha] = Str("bravo")

\* C17 as stated: on AttrDict boxing does not copy, every write or delete on
\* the child is visible in obj[k]
C17_AttrDictChildWritesThrough ==
    cls = "AttrDict" => SeenThroughParent

\* C17: on AttrDict the boxed child is a new dict with the entries of the
\* stored mapping: it equals obj[k] when it is boxed, a write or delete on
\* the child leaves the parent's value unchanged, and a mapping nested one
\* level deeper is still shared
C17_AttrDictChildIsTopLevelCopy ==
    [][cls = "AttrDict" =>
        /\ last'.op = "box" /\ last'.res = Str("child") =>
                PyEq(Named("child")', Named("obj").m[KeyFoo])
        /\ (WroteThrough("child") \/ DeletedThrough("child")
                \/ WroteThrough("grandchild"))' =>
                Named("obj")' = Named("obj")
        /\ last'.op = "setnested" =>
                Named("obj")'.m[KeyFoo].m[KeySub].m[KeyA] = last'.val]_vars

\* child = obj.foo; child.alpha = 'bravo' on an AttrDict: obj['foo'] has no alpha
C17_Witness ==
    /\ cls = "AttrDict"
    /\ WroteThrough("child")
    /\ last.key = KeyAlpha
    /\ KeyAlpha \in DOMAIN Named("child").m
    /\ KeyAlpha \notin DOMAIN Named("obj").m[KeyFoo].m
\* the last step changed the object called name, at its top level or inside
\* a nested mapping or list
TopLevelChange(name) == WroteThrough(name) \/ DeletedThrough(name)
NestedChange(name) ==
    /\ last.op \in {"setnested", "setinelement", "append"}
    /\ last.res = Str(name)

\* a shallow copy x of obj, as the contract has it: equal to obj when taken,
\* its top level apart from obj's, its nested values shared with obj's
ShallowCopyOf(x) ==
    /\ (last'.op \in {"copy", "dictcopy"} /\ last'.res = Str(x)) =>
            PyEq(Named(x)', Named("obj")')
    /\ (Bound(x) /\ TopLevelChange(x)') => Named("obj")' = Named("obj")
    /\ (Bound(x) /\ TopLevelChange("obj")') => Named(x)' = Named(x)
    /\ (Bound(x) /\ NestedChange(x)' /\ PyEq(Named(x), Named("obj"))) =>
            PyEq(Named(x)', Named("obj")')

\* C19: a shallow copy (copy.copy(c), and AttrDict.copy()) equals c and
\* duplicates the top-level mapping: a top-level change of the copy leaves c
\* unchanged, and the reverse; a change inside a nested value made through
\* the copy is visible through c and the two remain equal
C19_ShallowCopyDuplicatesTopLevel ==
    [][ShallowCopyOf("shallow") /\ ShallowCopyOf("plain")]_vars

\* C20: copy.deepcopy(c) equals c when it is taken, with the same class,
\* sequence type and flag, at every depth; a later change of the copy at
\* any depth leaves c unchanged, and the reverse
C20_DeepCopyIsIndependent ==
    [][/\ last'.op = "deepcopy" =>
            /\ Named("deep")' = Named("obj")'
            /\ Named("obj")' = Named("obj")
       /\ (Bound("deep") /\ (TopLevelChange("deep") \/ NestedChange("deep"))') =>
            Named("obj")' = Named("obj")
       /\ (Bound("deep") /\ (TopLevelChange("obj") \/ NestedChange("obj"))') =>
            Named("deep")' = Named("deep")]_vars

\* deep['foo']['bar'] = 'qux' after deep = copy.deepcopy(obj): the two differ
C20_Witness ==
    /\ Bound("deep")
    /\ last.op = "setnested"
    /\ last.res = Str("deep")
    /\ Named("deep").m[KeyFoo].m[KeyBar] = VQux
    /\ Named("obj").m[KeyFoo].m[KeyBar] = VBaz
    /\ Named("deep").t = Named("obj").t
\* the values of the operands of the addition
OperandValues == <<Named("src"), Named("obj"), Named("other")>>

\* C12: merge(left, right), c + m and m + c leave both operands unchanged at
\* every depth and return a newly allocated mapping: adding, replacing or
\* removing a top-level key of the result afterwards changes neither operand
C12_AdditionLeavesOperandsUnchanged ==
    [][/\ last'.op \in {"merge", "add", "radd"} =>
            /\ OperandValues' = OperandValues
            /\ refs'["sum"] \notin DOMAIN heap
            /\ Store(heap', refs'["sum"]) \notin DOMAIN heap
       /\ (Bound("sum") /\ TopLevelChange("sum")') =>
            OperandValues' = OperandValues]_vars

\* sum = obj + other; sum['c'] = 1: obj and other keep their values of c
C12_Witness ==
    /\ Bound("sum")
    /\ heap[refs["sum"]].t \in Classes
    /\ WroteThrough("sum")
    /\ Named("sum").m[KeyC] = VInt
    /\ Named("obj").m[KeyC] = VBar
    /\ Named("other").m[KeyC] = VQux
    /\ KeyAlpha \in DOMAIN Named("sum").m
\* the last operation produced a container from the container of the state
Derived ==
    /\ last.op \in {"call", "getattr", "add", "radd", "pickle"}
    /\ last.status = "ok"
    /\ IsContainer(last.res)

\* C23: a container produced from a mutable container by boxing, by
\* addition or by deserialization has the same allow-invalid-attributes
\* flag as the container it was produced from
C23_FlagIsCarriedForward ==
    Derived => last.res.f = allow_invalid_attributes
\* the step went through the raw escape hatch
RawStep == last'.op \in {"_setattr", "_delattr", "_setattr_flag", "_setattr_sequence_type"}

\* the step set or deleted the object-level attribute it named, and the
\* bookkeeping field when it named one
RawAsObjectAttribute ==
    CASE last'.op = "_setattr" ->
            last'.status = "ok" /\ attrs' = Put(attrs, last'.key, last'.val)
      [] last'.op = "_delattr" ->
            IF last'.key \in DOMAIN attrs
            THEN last'.status = "ok" /\ attrs' = Drop(attrs, last'.key)
            ELSE last'.status = "AttributeError" /\ attrs' = attrs
      [] last'.op = "_setattr_flag" ->
            /\ last'.status = "ok"
            /\ Bool(allow_invalid_attributes') = last'.val
            /\ attrs' = attrs
      [] last'.op = "_setattr_sequence_type" ->
            /\ last'.status = "ok"
            /\ sequence_type' = last'.val.s
            /\ attrs' = attrs

\* a container built from no entries has length 0: no field is a key
EmptyWhenBuiltFromNothing ==
    (last.op = "init" /\ mapping = <<>>) => container_len = 0

\* C24 (as stated): _setattr and _delattr set and delete the object-level
\* attribute for any name under either value of the flag, and change no
\* entry of the mapping; a container built from no entries has length 0
C24_RawHatchNeverTouchesMapping ==
    /\ []EmptyWhenBuiltFromNothing
    /\ [][RawStep => (mapping' = mapping /\ RawAsObjectAttribute)]_vars

\* C24 (amended): the same for every name except the field _mapping of
\* AttrMap: _setattr('_mapping', m) makes the entries of m the entries of
\* the container
C24_RawHatchExceptStorageField ==
    /\ []EmptyWhenBuiltFromNothing
    /\ [][RawStep =>
            IF cls = "AttrMap" /\ last'.key = KeyMapping /\ last'.op = "_setattr"
            THEN last'.status = "ok" /\ mapping' = last'.val.m /\ attrs' = attrs
            ELSE mapping' = mapping /\ RawAsObjectAttribute]_vars

\* _setattr('_key', v) with the flag false: the attribute is set, the
\* mapping keeps its one entry and does not gain the name
C24_Witness ==
    /\ ~allow_invalid_attributes
    /\ last.op = "_setattr"
    /\ last.key = KeyHidden
    /\ last.status = "ok"
    /\ KeyHidden \in DOMAIN attrs
    /\ DOMAIN mapping = {KeyFoo}
\* the error the last call raises when it is made again in this state
Repeated ==
    CASE last.op = "getitem" -> getitem(last.key).status
      [] last.op = "call" -> Attr_call(last.key).status
      [] last.op = "getattr" -> attribute_read(last.key).status
      [] last.op = "delitem" -> delitem(last.key).r.status
      [] last.op = "setattr" -> MutableAttr_setattr(last.key, last.val).r.status
      [] last.op = "delattr" -> MutableAttr_delattr(last.key).r.status
      [] last.op = "pop" -> pop(last.key, last.val).r.status
      [] last.op = "popitem" -> IF DOMAIN mapping = {} THEN "KeyError" ELSE "ok"
      [] last.op = "update" -> update(last.val).r.status
      [] last.op = "add" -> Plus(Self, last.val).status
      [] last.op = "radd" -> Plus(last.val, Self).status
      [] OTHER -> last.status

\* the step left the entries, the sequence type and the flag as they were
ContainerUnchanged ==
    /\ mapping' = mapping
    /\ sequence_type' = sequence_type
    /\ allow_invalid_attributes' = allow_invalid_attributes

\* C22: no operation that raises an error changes the container: the
\* entries, the sequence type and the flag are what they were before the
\* call, and the same call made again in the same state raises the same error
C22_ErrorsLeaveContainerUnchanged ==
    /\ [][last'.status # "ok" => ContainerUnchanged]_vars
    /\ [](last.status # "ok" => Repeated = last.status)
\* the step tried to write or delete, by key or by attribute
WriteAttempt == last'.op \in {"setattr", "setitem", "delattr", "delitem"}

\* obj.k for the eligible name k of the last call reads the mapping
AttributeReadsMapping ==
    Attr_valid_name(cls, last.key) =>
        attribute_read(last.key) = Attr_getattr(last.key)

====
